---- MODULE Spec2Model ----
(***************************************************************************)
(* Model of the terminal tag editor of music-manager (`music-manager edit`)*)
(* : the selectable directory list, the contextual action registry, the    *)
(* record of the song being edited and the App state machine driving them. *)
(*                                                                         *)
(* Strings are sequences of one-character strings; Option<T> is a sequence *)
(* of length at most one; a path is the sequence of its components.        *)
(***************************************************************************)
EXTENDS Integers, Sequences, FiniteSets, TLC

VARIABLES
    actions,                \* App.actions: the registry (Actions.0)
    warn_log,               \* messages warn!-ed by the latest Actions::from
    input_buffer,           \* App.input_buffer: [buffer, index]
    is_loading,             \* App.is_loading
    is_input,               \* App.is_input
    current_app_widget,     \* App.current_app_widget
    previous_app_widget,    \* App.previous_app_widget
    dirlist,                \* App.dirlist: DirListState
    current_selected_song,  \* App.current_selected_song: Song
    fs,                     \* the audio directory: file name -> Option<Tag>
    io_rx,                  \* IoEvents sent on io_tx and not yet handled
    panicked,               \* the process has aborted (panic)
    overflow_checks,        \* build profile: "on" (overflow panics), "off"
                            \* (it wraps), "unknown" until one occurs
    ui_pc,                  \* start_ui: "start", "loop" or "exited"
    io_pc,                  \* the I/O task: "idle" or "initialized"
    edits,                  \* how often the input bar was opened in this run
    last                    \* the latest operation: its input and result

vars == <<actions, warn_log, input_buffer, is_loading, is_input,
          current_app_widget, previous_app_widget, dirlist,
          current_selected_song, fs, io_rx, panicked, overflow_checks,
          ui_pc, io_pc, edits, last>>

-----------------------------------------------------------------------------
(* Bounds of the model                                                     *)

\* number of file names the audio directory draws its initial files from
MaxFiles == 2
\* length of the action lists registries are built from in SpecActions
MaxRegLen == 2
\* characters typed into the input bar, net of Backspace, over one run
MaxTyped == 1
\* largest row next() may select (it grows without limit on an empty list
\* when overflow wraps)
MaxIndex == 3
\* how often the input bar is opened in one run
MaxEdits == 1

-----------------------------------------------------------------------------
(* Option, strings, sequences                                              *)

None == <<>>
Some(v) == <<v>>
IsSome(o) == o # <<>>
Unwrap(o) == o[1]

Contains(seq, x) == \E i \in 1..Len(seq) : seq[i] = x
First(seq) == IF seq = <<>> THEN None ELSE Some(seq[1])
Range(seq) == {seq[i] : i \in 1..Len(seq)}

\* byte value of the characters that occur in file names
CharCode(c) ==
    CASE c = " " -> 32
      [] c = "." -> 46
      [] c = ":" -> 58
      [] c = "a" -> 97
      [] c = "b" -> 98
      [] c = "c" -> 99
      [] c = "d" -> 100
      [] c = "f" -> 102
      [] c = "l" -> 108
      [] OTHER -> 120

\* s < t in the byte-wise lexicographic order of str / OsStr
RECURSIVE StrLess(_, _)
StrLess(s, t) ==
    IF t = <<>> THEN FALSE
    ELSE IF s = <<>> THEN TRUE
    ELSE IF CharCode(Head(s)) # CharCode(Head(t))
         THEN CharCode(Head(s)) < CharCode(Head(t))
         ELSE StrLess(Tail(s), Tail(t))

\* slice::sort of a vector of strings without duplicates, given as a set
RECURSIVE SortStrings(_)
SortStrings(S) ==
    IF S = {} THEN <<>>
    ELSE LET m == CHOOSE x \in S : \A y \in S \ {x} : StrLess(x, y)
         IN <<m>> \o SortStrings(S \ {m})

-----------------------------------------------------------------------------
(* usize arithmetic                                                        *)

\* stand-in for usize::MAX, the result of 0usize - 1 when overflow wraps
UsizeMax == 2147483647

\* a - b on usize panics when overflow checks are on and a < b
SubPanics(a, b, checks) == checks /\ a < b

\* a - b on usize when it does not panic (wrapping when a < b)
SubWrap(a, b) == IF a >= b THEN a - b ELSE UsizeMax - (b - a) + 1

-----------------------------------------------------------------------------
(* The audio directory and its listing (tui/app/dir.rs)                    *)

AudioDir == <<"home", "Music">>

FileNamePool == << <<"a">>, <<"b">>, <<"c">>, <<"d">> >>
FileNames == {FileNamePool[i] : i \in 1..MaxFiles}

\* Path::join / Path::file_name / PathBuf::set_file_name
PathOf(dir, name) == Append(dir, name)
file_name_of(path) == path[Len(path)]
set_file_name(path, name) == [path EXCEPT ![Len(path)] = name]

\* get_files_in_dir on a directory holding the files `names`: the sorted
\* names and the sorted paths. Paths of one directory sort by file name.
get_files_in_dir(dir, names) ==
    LET sorted == SortStrings(names)
    IN [names |-> sorted,
        paths |-> [i \in 1..Len(sorted) |-> PathOf(dir, sorted[i])]]

\* DirListState::new given the directory's files
DirListState_new(names) ==
    LET l == get_files_in_dir(AudioDir, names)
    IN [current_dir_path |-> AudioDir,
        current_dir_file_names |-> l.names,
        current_dir_file_paths |-> l.paths,
        state |-> None]

\* a set_items that replaces the items and keeps the selection
set_items_keeping_selection(d, dir_file_names, dir_file_paths) ==
    [d EXCEPT !.current_dir_file_names = dir_file_names,
              !.current_dir_file_paths = dir_file_paths]

\* DirListState::set_items
set_items(d, dir_file_names, dir_file_paths) ==
    LET d1 == IF d.current_dir_file_names # dir_file_names
              THEN [d EXCEPT !.current_dir_file_names = dir_file_names,
                             !.state = None]
              ELSE d
    IN IF d1.current_dir_file_paths # dir_file_paths
       THEN [d1 EXCEPT !.current_dir_file_paths = dir_file_paths,
                       !.state = None]
       ELSE d1

\* DirListState::poll given the directory's files
poll(d, names) ==
    LET l == get_files_in_dir(d.current_dir_path, names)
    IN set_items(d, l.names, l.paths)

\* a next() that never returns to the top
next_index_without_wrap(sel, len) ==
    IF IsSome(sel) THEN Unwrap(sel) + 1 ELSE 0

\* a next() that returns to the top one row late
next_index_wrapping_late(sel, len) ==
    IF IsSome(sel)
    THEN IF Unwrap(sel) >= len THEN 0 ELSE Unwrap(sel) + 1
    ELSE 0

\* the index next() selects: ListState.selected() = sel, items.len() = len
\* (the rows are 0-based as in the source)
next_index(sel, len) ==
    IF IsSome(sel)
    THEN IF Unwrap(sel) >= SubWrap(len, 1) THEN 0 ELSE Unwrap(sel) + 1
    ELSE 0

\* next() evaluates len - 1 only when something is selected
next_panics(sel, len, checks) == IsSome(sel) /\ SubPanics(len, 1, checks)

\* the index previous() selects
previous_index(sel, len) ==
    IF IsSome(sel)
    THEN IF Unwrap(sel) = 0 THEN SubWrap(len, 1) ELSE Unwrap(sel) - 1
    ELSE 0

\* previous() evaluates len - 1 only when index 0 is selected
previous_panics(sel, len, checks) ==
    IsSome(sel) /\ Unwrap(sel) = 0 /\ SubPanics(len, 1, checks)

\* DirListState::next / previous / unselect
DirListState_next(d) ==
    [d EXCEPT !.state = Some(next_index(d.state, Len(d.current_dir_file_names)))]

DirListState_previous(d) ==
    [d EXCEPT !.state =
        Some(previous_index(d.state, Len(d.current_dir_file_names)))]

DirListState_unselect(d) == [d EXCEPT !.state = None]

-----------------------------------------------------------------------------
(* Keys and the contextual actions (tui/app/actions.rs)                    *)

KChar(c) == <<"Char", c>>
KCtrl(c) == <<"Ctrl", c>>
KAlt(c) == <<"Alt", c>>
KEnter == <<"Enter">>
KEsc == <<"Esc">>
KBackspace == <<"Backspace">>
KUp == <<"Up">>
KDown == <<"Down">>
KLeft == <<"Left">>
KRight == <<"Right">>
KPageUp == <<"PageUp">>
KPageDown == <<"PageDown">>

\* Action::iter(): the variants of enum Action in declaration order
ActionIter ==
    <<"Quit", "SwitchToLogWidget", "SwitchToPreviousWidget", "SelectDown",
      "SelectUp", "Enter", "SwitchToDirListWidget", "LogToggleHideSelector",
      "LogToggleFocus", "LogSelectPreviousTarget", "LogSelectNextTarget",
      "LogReduceShown", "LogIncreaseShown", "LogDecreaseCapture",
      "LogIncreaseCapture", "LogPageUp", "LogPageDown", "LogExitPageMode",
      "LogToggleHideTargets", "SaveTagsToFile">>

Action == Range(ActionIter)

\* Action::keys, as a table
KeyTable == [action \in Action |->
    CASE action = "Quit" -> <<KCtrl("c"), KChar("q")>>
      [] action = "LogToggleHideSelector" -> <<KChar("h")>>
      [] action = "LogToggleFocus" -> <<KChar("f")>>
      [] action = "LogSelectPreviousTarget" -> <<KUp>>
      [] action = "LogSelectNextTarget" -> <<KDown>>
      [] action = "LogReduceShown" -> <<KLeft>>
      [] action = "LogIncreaseShown" -> <<KRight>>
      [] action = "LogIncreaseCapture" -> <<KChar("+")>>
      [] action = "LogDecreaseCapture" -> <<KChar("-")>>
      [] action = "LogPageUp" -> <<KPageUp>>
      [] action = "LogPageDown" -> <<KPageDown>>
      [] action = "LogExitPageMode" -> <<KEsc>>
      [] action = "LogToggleHideTargets" -> <<KChar(" ")>>
      [] action = "SwitchToLogWidget" -> <<KCtrl("l")>>
      [] action = "SwitchToPreviousWidget" -> <<KEsc>>
      [] action = "SelectDown" -> <<KChar("j")>>
      [] action = "SelectUp" -> <<KChar("k")>>
      [] action = "Enter" -> <<KEnter>>
      [] action = "SaveTagsToFile" -> <<KChar("s")>>
      [] action = "SwitchToDirListWidget" -> <<KChar("d")>>]

\* Action::keys
keys(action) == KeyTable[action]

\* every key some action is bound to
BoundKeys == UNION {Range(KeyTable[a]) : a \in Action}

\* Action::iter().filter(|action| action.keys().contains(&key)): the
\* variants bound to a key, in declaration order, as a table
BoundTable ==
    [k \in BoundKeys |->
        SelectSeq(ActionIter, LAMBDA a : Contains(KeyTable[a], k))]

iter_bound_to(key) == IF key \in BoundKeys THEN BoundTable[key] ELSE <<>>

\* a find that scans the registry in the order it was built in
find_in_registration_order(registry, key) ==
    First(SelectSeq(registry, LAMBDA a : Contains(keys(a), key)))

\* a find that does not look at what the registry enables
find_among_all_variants(registry, key) == First(iter_bound_to(key))

\* Actions::find: the first variant, in Action::iter() order, that the
\* registry contains and whose keys contain the key (the two filters of
\* the source commute; the one on the key is applied first here)
find(registry, key) ==
    First(SelectSeq(iter_bound_to(key), LAMBDA a : Contains(registry, a)))

\* the map built by Actions::from: for a key, the actions of the list bound
\* to it, in list order, one entry per occurrence in the list
conflict_map(list, key) == SelectSeq(list, LAMBDA a : Contains(keys(a), key))

\* a check that reports a shortcut only from the third action on
conflict_keys_from_three(list) ==
    {k \in BoundKeys : Len(conflict_map(list, k)) > 2}

\* the map's entries with at least two actions share a shortcut
conflict_keys(list) == {k \in BoundKeys : Len(conflict_map(list, k)) > 1}

\* all orders in which a HashMap may iterate over the keys K
RECURSIVE Orders(_)
Orders(K) ==
    IF K = {} THEN {<<>>}
    ELSE UNION {{<<k>> \o o : o \in Orders(K \ {k})} : k \in K}

\* the messages Actions::from may warn!: none without a conflict, else one
\* message joining one "Conflict key .. with actions .." part per shared key
from_warnings(list) ==
    IF conflict_keys(list) = {} THEN {<<>>}
    ELSE {<< [i \in 1..Len(o) |->
                 [key |-> o[i], actions |-> conflict_map(list, o[i])]] >> :
            o \in Orders(conflict_keys(list))}

\* the registry Actions::from returns
from_registry(list) == list

\* Actions::from for a list with at most one shared key, where the message
\* does not depend on the HashMap's order: the registry and what is warned
Actions_from(list) ==
    [registry |-> from_registry(list),
     warnings |-> CHOOSE w \in from_warnings(list) : TRUE]

-----------------------------------------------------------------------------
(* The song being edited (edit/app/song.rs)                                *)

\* str::split(sep): the tokens between separators, empty ones included
RECURSIVE SplitFrom(_, _, _)
SplitFrom(s, sep, cur) ==
    IF s = <<>> THEN <<cur>>
    ELSE IF Head(s) = sep
         THEN <<cur>> \o SplitFrom(Tail(s), sep, <<>>)
         ELSE SplitFrom(Tail(s), sep, Append(cur, Head(s)))

split(s, sep) == SplitFrom(s, sep, <<>>)

\* str::contains(pat)
str_contains(s, pat) ==
    \E i \in 0..(Len(s) - Len(pat)) : SubSeq(s, i + 1, i + Len(pat)) = pat

NoneStr == <<"N", "o", "n", "e">>
FlacStr == <<"f", "l", "a", "c">>
DotFlacStr == <<".", "f", "l", "a", "c">>
FileNameLabel == <<"F", "i", "l", "e", " ", "n", "a", "m", "e", ":", " ">>
TitleLabel == <<"T", "i", "t", "l", "e", ":", " ">>
ArtistsLabel == <<"A", "r", "t", "i", "s", "t", "s", ":", " ">>
AlbumLabel == <<"A", "l", "b", "u", "m", ":", " ">>

\* metaflac::Tag, reduced to the three vorbis comments the editor reads:
\* comment name -> Option<Vec<String>>
Tag_default == [TITLE |-> None, ARTIST |-> None, ALBUM |-> None]

\* Tag::get_vorbis / Tag::set_vorbis
get_vorbis(tag, name) == tag[name]
set_vorbis(tag, name, values) == [tag EXCEPT ![name] = Some(values)]

\* Tag::read_from_path: Err (None) when the file is missing or holds no
\* readable tag block
read_from_path(files, path) ==
    IF file_name_of(path) \in DOMAIN files
    THEN files[file_name_of(path)]
    ELSE None

\* Song::default
Song_default ==
    [file_path |-> <<>>, file_name |-> <<>>, tag |-> Tag_default,
     title |-> None, artists |-> None, album |-> None,
     items |-> <<>>, state |-> None, initialized |-> FALSE]

\* Song::init_title / init_artist / init_album / init
init_title(song) ==
    [song EXCEPT !.title =
        IF IsSome(get_vorbis(song.tag, "TITLE"))
        THEN Some(Unwrap(get_vorbis(song.tag, "TITLE"))[1])
        ELSE None]

init_artist(song) == [song EXCEPT !.artists = get_vorbis(song.tag, "ARTIST")]

init_album(song) ==
    [song EXCEPT !.album =
        IF IsSome(get_vorbis(song.tag, "ALBUM"))
        THEN Some(Unwrap(get_vorbis(song.tag, "ALBUM"))[1])
        ELSE None]

init(song) ==
    [init_album(init_artist(init_title(song))) EXCEPT !.initialized = TRUE]

\* the loop of populate_list_items over the artists: every artist is
\* followed by ':' unless it is the string "None"
RECURSIVE artist_string(_)
artist_string(artists) ==
    IF artists = <<>> THEN <<>>
    ELSE Head(artists)
         \o (IF Head(artists) = NoneStr THEN <<>> ELSE <<":">>)
         \o artist_string(Tail(artists))

\* Song::populate_list_items
populate_list_items(song) ==
    [song EXCEPT !.items =
        << FileNameLabel \o song.file_name,
           TitleLabel \o (IF IsSome(song.title) THEN Unwrap(song.title)
                          ELSE NoneStr),
           ArtistsLabel \o artist_string(IF IsSome(song.artists)
                                         THEN Unwrap(song.artists)
                                         ELSE <<NoneStr>>),
           AlbumLabel \o (IF IsSome(song.album) THEN Unwrap(song.album)
                          ELSE NoneStr) >>]

\* Song::read_music_file: Err (None) when the tag cannot be read
read_music_file(files, path) ==
    IF IsSome(read_from_path(files, path))
    THEN Some(populate_list_items(init(
            [Song_default EXCEPT !.file_path = path,
                                 !.file_name = file_name_of(path),
                                 !.tag = Unwrap(read_from_path(files, path))])))
    ELSE None

\* the file name edit_filename renames to
new_file_name_of(new_value) ==
    IF str_contains(new_value, FlacStr) THEN new_value
    ELSE new_value \o DotFlacStr

\* std::fs::rename(old, new) inside one directory, when it succeeds
fs_rename(files, old, new) ==
    IF old = new THEN files
    ELSE [n \in (DOMAIN files \ {old}) \cup {new} |->
             IF n = new THEN files[old] ELSE files[n]]

\* std::fs::rename can succeed only when the source exists
rename_possible(files, old) == old \in DOMAIN files

\* an edit_filename that takes the new name before it renames the file
edit_filename_renaming_late(song, new_value, files, rename_ok) ==
    LET new_file_name == new_file_name_of(new_value)
        new_file_path == set_file_name(song.file_path, new_file_name)
        files2 == fs_rename(files, file_name_of(song.file_path), new_file_name)
        renamed == [song EXCEPT !.file_name = new_file_name,
                                !.file_path = new_file_path]
    IN IF rename_ok /\ rename_possible(files, file_name_of(song.file_path))
       THEN [song |-> IF IsSome(read_from_path(files2, new_file_path))
                      THEN init([renamed EXCEPT !.tag =
                                    Unwrap(read_from_path(files2, new_file_path))])
                      ELSE renamed,
             files |-> files2]
       ELSE [song |-> renamed, files |-> files]

\* Song::edit_filename: [song, files] after the call; rename_ok is the
\* outcome of std::fs::rename
edit_filename(song, new_value, files, rename_ok) ==
    LET new_file_name == new_file_name_of(new_value)
        new_file_path == set_file_name(song.file_path, new_file_name)
        files2 == fs_rename(files, file_name_of(song.file_path), new_file_name)
        renamed == [song EXCEPT !.file_name = new_file_name,
                                !.file_path = new_file_path]
    IN IF rename_ok /\ rename_possible(files, file_name_of(song.file_path))
       THEN [song |-> IF IsSome(read_from_path(files2, new_file_path))
                      THEN init([renamed EXCEPT !.tag =
                                    Unwrap(read_from_path(files2, new_file_path))])
                      ELSE renamed,
             files |-> files2]
       ELSE [song |-> song, files |-> files]

\* an edit_title that leaves the tag block as it was
edit_title_leaving_tag(song, new_value) ==
    [song EXCEPT !.title = Some(new_value)]

\* Song::edit_title / edit_artist / edit_album
edit_title(song, new_value) ==
    [song EXCEPT !.title = Some(new_value),
                 !.tag = set_vorbis(song.tag, "TITLE", <<new_value>>)]

edit_artist(song, new_value) ==
    [song EXCEPT !.tag = set_vorbis(song.tag, "ARTIST", split(new_value, ":")),
                 !.artists = Some(split(new_value, ":"))]

edit_album(song, new_album_value) ==
    [song EXCEPT !.tag = set_vorbis(song.tag, "ALBUM", <<new_album_value>>),
                 !.album = Some(new_album_value)]

\* an edit that changes the title whichever row is selected
edit_title_whatever_selected(song, new_value, files, rename_ok) ==
    [song |-> populate_list_items(edit_title(song, new_value)),
     files |-> files]

\* an edit whose title arm leaves the display lines as they were
edit_without_repopulating(song, new_value, files, rename_ok) ==
    LET index == IF IsSome(song.state) THEN Unwrap(song.state) ELSE 10
    IN CASE index = 0 ->
              LET r == edit_filename(song, new_value, files, rename_ok)
              IN [song |-> populate_list_items(r.song), files |-> r.files]
         [] index = 1 ->
              [song |-> edit_title(song, new_value), files |-> files]
         [] index = 2 ->
              [song |-> populate_list_items(edit_artist(song, new_value)),
               files |-> files]
         [] index = 3 ->
              [song |-> populate_list_items(edit_album(song, new_value)),
               files |-> files]
         [] OTHER -> [song |-> song, files |-> files]

\* Song::edit: [song, files] after the call
edit(song, new_value, files, rename_ok) ==
    LET index == IF IsSome(song.state) THEN Unwrap(song.state) ELSE 10
    IN CASE index = 0 ->
              LET r == edit_filename(song, new_value, files, rename_ok)
              IN [song |-> populate_list_items(r.song), files |-> r.files]
         [] index = 1 ->
              [song |-> populate_list_items(edit_title(song, new_value)),
               files |-> files]
         [] index = 2 ->
              [song |-> populate_list_items(edit_artist(song, new_value)),
               files |-> files]
         [] index = 3 ->
              [song |-> populate_list_items(edit_album(song, new_value)),
               files |-> files]
         [] OTHER -> [song |-> song, files |-> files]

\* the tag block Tag::write_to_path stores: a vorbis comment is written
\* once per value, so a comment without values is not in the file
stored_tag(tag) ==
    [k \in DOMAIN tag |-> IF tag[k] = Some(<<>>) THEN None ELSE tag[k]]

\* Song::write_tag_changes: the files after Tag::write_to_path succeeded
write_tag_changes(song, files) ==
    [n \in DOMAIN files \cup {file_name_of(song.file_path)} |->
        IF n = file_name_of(song.file_path) THEN Some(stored_tag(song.tag))
        ELSE files[n]]

\* a next that also marks the record as not loaded
Song_next_invalidating(song) ==
    [song EXCEPT !.state = Some(next_index(song.state, Len(song.items))),
                 !.initialized = FALSE]

\* Song::next / previous / unselect
Song_next(song) ==
    [song EXCEPT !.state = Some(next_index(song.state, Len(song.items)))]

Song_previous(song) ==
    [song EXCEPT !.state = Some(previous_index(song.state, Len(song.items)))]

Song_unselect(song) == [song EXCEPT !.state = None]

-----------------------------------------------------------------------------
(* The App (edit/app/mod.rs, edit/inputs/mod.rs)                           *)

\* InputBuffer::new / push_char / pop / clear / get_buffer_drain
InputBuffer_new == [buffer |-> <<>>, index |-> 0]
push_char(b, c) == [buffer |-> Append(b.buffer, c), index |-> b.index + 1]

pop(b) ==
    IF b.buffer # <<>>
    THEN [buffer |-> SubSeq(b.buffer, 1, Len(b.buffer) - 1),
          index |-> b.index - 1]
    ELSE b

clear(b) == [b EXCEPT !.buffer = <<>>]
get_buffer_drain(b) == [buffer |-> b.buffer, rest |-> [b EXCEPT !.buffer = <<>>]]

\* the App together with the directory it works on, as one record
app ==
    [actions |-> actions, warn_log |-> warn_log,
     input_buffer |-> input_buffer, is_loading |-> is_loading,
     is_input |-> is_input, current_app_widget |-> current_app_widget,
     previous_app_widget |-> previous_app_widget, dirlist |-> dirlist,
     current_selected_song |-> current_selected_song, fs |-> fs,
     panicked |-> panicked]

\* a failed unwrap()/expect(): the process aborts
panic(a) == [a EXCEPT !.panicked = TRUE]

\* a set_actions that adds the new list to the actions already enabled
set_actions_adding(a, converted) ==
    [a EXCEPT !.actions =
                  a.actions \o SelectSeq(converted.registry,
                                         LAMBDA x : ~Contains(a.actions, x)),
              !.warn_log = converted.warnings]

\* App::set_actions, given the list converted by Actions::from
set_actions(a, converted) ==
    [a EXCEPT !.actions = converted.registry,
              !.warn_log = converted.warnings]

\* the list of App::new, converted
InitialRegistry == Actions_from(<<"Quit">>)

\* App::new given the directory's files
App_new(files) ==
    [actions |-> InitialRegistry.registry,
     warn_log |-> InitialRegistry.warnings,
     input_buffer |-> InputBuffer_new, is_loading |-> FALSE,
     is_input |-> FALSE, current_app_widget |-> "DirListing",
     previous_app_widget |-> "DirListing",
     dirlist |-> DirListState_new(DOMAIN files),
     current_selected_song |-> Song_default, fs |-> files,
     panicked |-> FALSE]

DirListingActions ==
    <<"Quit", "SelectUp", "SelectDown", "Enter", "SwitchToLogWidget",
      "SwitchToPreviousWidget", "SwitchToDirListWidget">>

MetadataEditorActions ==
    <<"Quit", "SelectUp", "SelectDown", "Enter", "SwitchToLogWidget",
      "SwitchToPreviousWidget", "SaveTagsToFile", "SwitchToDirListWidget">>

LogViewerActions ==
    <<"LogDecreaseCapture", "LogExitPageMode", "LogIncreaseCapture",
      "LogIncreaseShown", "LogPageDown", "LogPageUp", "LogReduceShown",
      "LogSelectNextTarget", "LogSelectPreviousTarget", "LogToggleFocus",
      "LogToggleHideSelector", "LogToggleHideTargets",
      "SwitchToPreviousWidget">>

\* the three lists, converted by Actions::from
DirListingRegistry == Actions_from(DirListingActions)
MetadataEditorRegistry == Actions_from(MetadataEditorActions)
LogViewerRegistry == Actions_from(LogViewerActions)

\* an entry into the directory widget that reloads the listing
enter_dirlisting_widget_polling(a) ==
    set_actions([a EXCEPT !.previous_app_widget = a.current_app_widget,
                          !.current_app_widget = "DirListing",
                          !.dirlist = poll(a.dirlist, DOMAIN a.fs)],
                DirListingRegistry)

\* App::enter_dirlisting_widget
enter_dirlisting_widget(a) ==
    set_actions([a EXCEPT !.previous_app_widget = a.current_app_widget,
                          !.current_app_widget = "DirListing"],
                DirListingRegistry)

\* a load that always takes the first row of the listing
path_to_load_first_row(d) ==
    IF 0 < Len(d.current_dir_file_paths)
    THEN Some(d.current_dir_file_paths[1])
    ELSE None

\* the path enter_metadata_editor_widget loads: the selected row, row 0
\* when nothing is selected; None when the listing has no such row
path_to_load(d) ==
    LET index == IF IsSome(d.state) THEN Unwrap(d.state) ELSE 0
    IN IF index < Len(d.current_dir_file_paths)
       THEN Some(d.current_dir_file_paths[index + 1])
       ELSE None

\* App::enter_metadata_editor_widget
enter_metadata_editor_widget(a) ==
    LET a1 == [a EXCEPT !.previous_app_widget =
                            IF a.current_app_widget = "InputBar"
                            THEN "MetadataEditor"
                            ELSE a.current_app_widget,
                        !.current_app_widget = "MetadataEditor"]
        a2 == set_actions(a1, MetadataEditorRegistry)
        a3 == IF a2.previous_app_widget = "DirListing"
              THEN [a2 EXCEPT !.current_selected_song.initialized = FALSE]
              ELSE a2
        path == path_to_load(a3.dirlist)
    IN IF a3.current_selected_song.initialized THEN a3
       ELSE IF ~IsSome(path) THEN panic(a3)
       ELSE IF ~IsSome(read_music_file(a3.fs, Unwrap(path))) THEN panic(a3)
       ELSE [a3 EXCEPT !.current_selected_song =
                Unwrap(read_music_file(a3.fs, Unwrap(path)))]

\* an entry into the log widget that does not record where it came from
enter_log_viewer_widget_forgetting_previous(a) ==
    set_actions([a EXCEPT !.current_app_widget = "LogViewer"],
                LogViewerRegistry)

\* App::enter_log_viewer_widget
enter_log_viewer_widget(a) ==
    set_actions([a EXCEPT !.previous_app_widget = a.current_app_widget,
                          !.current_app_widget = "LogViewer"],
                LogViewerRegistry)

\* a start_editing that turns capture on and leaves the focus where it is
start_editing_keeping_focus(a) ==
    [a EXCEPT !.is_input = TRUE,
              !.previous_app_widget = a.current_app_widget]

\* App::start_editing
start_editing(a) ==
    [a EXCEPT !.is_input = TRUE,
              !.previous_app_widget = a.current_app_widget,
              !.current_app_widget = "InputBar"]

\* App::stop_editing; fs_ok is the outcome of the rename an edit may make
stop_editing(a, fs_ok) ==
    LET a1 == [a EXCEPT !.is_input = FALSE]
        drained == get_buffer_drain(a1.input_buffer)
        edited == edit(a1.current_selected_song, drained.buffer, a1.fs, fs_ok)
    IN CASE a1.previous_app_widget = "DirListing" ->
              enter_dirlisting_widget(a1)
         [] a1.previous_app_widget = "MetadataEditor" ->
              enter_metadata_editor_widget(
                  [a1 EXCEPT !.input_buffer = drained.rest,
                             !.current_selected_song = edited.song,
                             !.fs = edited.files])
         [] OTHER -> a1

\* the arm of do_action for an action found while is_input is false; the
\* arms of the log widget only drive tui_logger's own widget state
run_action(a, action, fs_ok, checks) ==
    CASE action = "SwitchToLogWidget" -> enter_log_viewer_widget(a)
      [] action = "SwitchToPreviousWidget" ->
           IF a.previous_app_widget = "MetadataEditor"
           THEN enter_metadata_editor_widget(a)
           ELSE enter_dirlisting_widget(a)
      [] action = "SelectDown" ->
           CASE a.current_app_widget = "DirListing" ->
                  IF next_panics(a.dirlist.state,
                                 Len(a.dirlist.current_dir_file_names),
                                 checks)
                  THEN panic(a)
                  ELSE [a EXCEPT !.dirlist = DirListState_next(a.dirlist)]
             [] a.current_app_widget = "MetadataEditor" ->
                  IF next_panics(a.current_selected_song.state,
                                 Len(a.current_selected_song.items),
                                 checks)
                  THEN panic(a)
                  ELSE [a EXCEPT !.current_selected_song =
                                     Song_next(a.current_selected_song)]
             [] OTHER -> a
      [] action = "SelectUp" ->
           CASE a.current_app_widget = "DirListing" ->
                  IF previous_panics(a.dirlist.state,
                                     Len(a.dirlist.current_dir_file_names),
                                     checks)
                  THEN panic(a)
                  ELSE [a EXCEPT !.dirlist = DirListState_previous(a.dirlist)]
             [] a.current_app_widget = "MetadataEditor" ->
                  IF previous_panics(a.current_selected_song.state,
                                     Len(a.current_selected_song.items),
                                     checks)
                  THEN panic(a)
                  ELSE [a EXCEPT !.current_selected_song =
                                     Song_previous(a.current_selected_song)]
             [] OTHER -> a
      [] action = "Enter" ->
           CASE a.current_app_widget = "DirListing" ->
                  enter_metadata_editor_widget(a)
             [] a.current_app_widget = "MetadataEditor" -> start_editing(a)
             [] OTHER -> a
      [] action = "SaveTagsToFile" ->
           IF fs_ok
           THEN [a EXCEPT !.fs = write_tag_changes(a.current_selected_song,
                                                   a.fs)]
           ELSE a
      [] action = "SwitchToDirListWidget" -> enter_dirlisting_widget(a)
      [] OTHER -> a

\* the arm of do_action while is_input is true
input_key(a, key, fs_ok) ==
    CASE key[1] = "Char" ->
           [a EXCEPT !.input_buffer = push_char(a.input_buffer, key[2])]
      [] key = KEnter ->
           LET a1 == stop_editing(a, fs_ok)
           IN [a1 EXCEPT !.input_buffer = clear(a1.input_buffer)]
      [] key = KEsc ->
           enter_metadata_editor_widget([a EXCEPT !.is_input = FALSE])
      [] key = KBackspace -> [a EXCEPT !.input_buffer = pop(a.input_buffer)]
      [] OTHER -> a

\* a do_action that leaves the metadata editor when the save fails
do_action_leaving_editor_on_failed_save(a, key, fs_ok, checks) ==
    IF a.is_input
    THEN [app |-> input_key(a, key, fs_ok), ret |-> "Continue"]
    ELSE IF IsSome(find(a.actions, key))
         THEN IF Unwrap(find(a.actions, key)) = "Quit"
              THEN [app |-> a, ret |-> "Exit"]
              ELSE IF Unwrap(find(a.actions, key)) = "SaveTagsToFile"
                      /\ ~fs_ok
                   THEN [app |-> enter_dirlisting_widget(a),
                         ret |-> "Continue"]
                   ELSE [app |-> run_action(a, Unwrap(find(a.actions, key)),
                                             fs_ok, checks),
                         ret |-> "Continue"]
         ELSE [app |-> a, ret |-> "Continue"]

\* App::do_action: the App after the key and the AppReturn
do_action(a, key, fs_ok, checks) ==
    IF a.is_input
    THEN [app |-> input_key(a, key, fs_ok), ret |-> "Continue"]
    ELSE IF IsSome(find(a.actions, key))
         THEN IF Unwrap(find(a.actions, key)) = "Quit"
              THEN [app |-> a, ret |-> "Exit"]
              ELSE [app |-> run_action(a, Unwrap(find(a.actions, key)), fs_ok,
                                        checks),
                    ret |-> "Continue"]
         ELSE [app |-> a, ret |-> "Continue"]

\* whether do_action renames a file or writes a tag block for this key
uses_fs(a, key) ==
    IF a.is_input
    THEN key = KEnter /\ a.previous_app_widget = "MetadataEditor"
         /\ a.current_selected_song.state = Some(0)
    ELSE find(a.actions, key) = Some("SaveTagsToFile")

\* a tick that also returns the focus to the directory listing
update_on_tick_refocusing(a, list_ok) ==
    IF list_ok
    THEN [a EXCEPT !.dirlist = poll(a.dirlist, DOMAIN a.fs),
                   !.current_app_widget = "DirListing"]
    ELSE panic(a)

\* App::update_on_tick; list_ok is the outcome of get_files_in_dir
update_on_tick(a, list_ok) ==
    IF list_ok
    THEN [a EXCEPT !.dirlist = poll(a.dirlist, DOMAIN a.fs)]
    ELSE panic(a)

\* a loaded that leaves the loading flag set
loaded_keeping_flag(a) == a

\* App::initialized / App::loaded
initialized(a) == enter_dirlisting_widget(a)
loaded(a) == [a EXCEPT !.is_loading = FALSE]


\* whether do_action evaluates len - 1 on an empty list for this key: the
\* only place where the build profile shows
overflows(a, key) ==
    /\ ~a.is_input
    /\ \/ /\ find(a.actions, key) = Some("SelectDown")
          /\ \/ /\ a.current_app_widget = "DirListing"
                /\ next_panics(a.dirlist.state,
                               Len(a.dirlist.current_dir_file_names), TRUE)
             \/ /\ a.current_app_widget = "MetadataEditor"
                /\ next_panics(a.current_selected_song.state,
                               Len(a.current_selected_song.items), TRUE)
       \/ /\ find(a.actions, key) = Some("SelectUp")
          /\ \/ /\ a.current_app_widget = "DirListing"
                /\ previous_panics(a.dirlist.state,
                                   Len(a.dirlist.current_dir_file_names), TRUE)
             \/ /\ a.current_app_widget = "MetadataEditor"
                /\ previous_panics(a.current_selected_song.state,
                                   Len(a.current_selected_song.items), TRUE)

-----------------------------------------------------------------------------
(* Inputs of the model                                                     *)

\* the characters typed into the input bar
Chars == {"d", ":"}

\* the tag blocks the files of the directory start with
InitTags ==
    {[TITLE |-> Some(<< <<"t">> >>),
      ARTIST |-> Some(<< <<"x">>, <<"y">> >>),
      ALBUM |-> Some(<< <<"l">> >>)]}

\* what a file may hold: no readable tag block, or a tag block
FileContents == {None} \cup {Some(t) : t \in InitTags}

\* the directories the program may start in
InitialDirs == UNION {[S -> FileContents] : S \in SUBSET FileNames}

\* the keys the terminal delivers
Keys ==
    BoundKeys \cup {KChar(c) : c \in Chars} \cup {KBackspace, KAlt("w")}

\* the keys delivered while the input bar captures text
InputKeys ==
    {KChar(c) : c \in Chars} \cup {KEnter, KEsc, KBackspace, KAlt("w")}

-----------------------------------------------------------------------------
(* Spec: the editor, its I/O task and the directory it works on            *)

\* the variables of the App start as the fields of the record a
InitApp(a) ==
    /\ actions = a.actions
    /\ warn_log = a.warn_log
    /\ input_buffer = a.input_buffer
    /\ is_loading = a.is_loading
    /\ is_input = a.is_input
    /\ current_app_widget = a.current_app_widget
    /\ previous_app_widget = a.previous_app_widget
    /\ dirlist = a.dirlist
    /\ current_selected_song = a.current_selected_song
    /\ fs = a.fs
    /\ panicked = a.panicked

\* the variables of the App take the fields of the record a
SetApp(a) ==
    /\ actions' = a.actions
    /\ warn_log' = a.warn_log
    /\ input_buffer' = a.input_buffer
    /\ is_loading' = a.is_loading
    /\ is_input' = a.is_input
    /\ current_app_widget' = a.current_app_widget
    /\ previous_app_widget' = a.previous_app_widget
    /\ dirlist' = a.dirlist
    /\ current_selected_song' = a.current_selected_song
    /\ fs' = a.fs
    /\ panicked' = a.panicked

\* the process is running: no panic, and start_ui has not returned
Alive == ~panicked /\ ui_pc # "exited"

NoLast == [op |-> "none"]

\* edit(): App::new, the channel and the spawned I/O task
Init ==
    /\ \E files \in InitialDirs : InitApp(App_new(files))
    /\ overflow_checks = "unknown"
    /\ io_rx = <<>>
    /\ ui_pc = "start"
    /\ io_pc = "idle"
    /\ edits = 0
    /\ last = NoLast

\* start_ui: app.dispatch(IoEvent::Initialize) before the event loop
Dispatch ==
    /\ Alive /\ ui_pc = "start"
    /\ SetApp([app EXCEPT !.is_loading = TRUE])
    /\ io_rx' = Append(io_rx, "Initialize")
    /\ ui_pc' = "loop"
    /\ UNCHANGED <<overflow_checks, io_pc, edits, last>>

\* whether do_action opens the input bar for this key
starts_editing(a, key) ==
    /\ ~a.is_input
    /\ a.current_app_widget = "MetadataEditor"
    /\ find(a.actions, key) = Some("Enter")

\* the outcomes of the file operation do_action makes for this key
FsOutcomes(a, key) == IF uses_fs(a, key) THEN BOOLEAN ELSE {TRUE}

\* the build profiles that can show in do_action for this key
Profiles(a, key, known) ==
    IF ~overflows(a, key) THEN {TRUE}
    ELSE IF known = "on" THEN {TRUE}
    ELSE IF known = "off" THEN {FALSE}
    ELSE BOOLEAN

\* start_ui: InputEvent::Input(key) of the event loop, the rename or tag
\* write it makes succeeding iff fs_ok, in a build whose overflow checks
\* are on iff checks
KeyStep(key, fs_ok, checks) ==
    /\ Alive /\ ui_pc = "loop"
    /\ is_input => key \in InputKeys
    /\ (is_input /\ key[1] = "Char") => input_buffer.index < MaxTyped
    /\ starts_editing(app, key) => edits < MaxEdits
    /\ fs_ok \in FsOutcomes(app, key)
    /\ checks \in Profiles(app, key, overflow_checks)
    /\ \E r \in {do_action(app, key, fs_ok, checks)} :
          /\ IsSome(r.app.dirlist.state) =>
                \/ Unwrap(r.app.dirlist.state) <= MaxIndex
                \/ Unwrap(r.app.dirlist.state) = UsizeMax
          /\ SetApp(r.app)
          /\ ui_pc' = IF r.ret = "Exit" THEN "exited" ELSE "loop"
    /\ overflow_checks' = IF overflows(app, key)
                          THEN (IF checks THEN "on" ELSE "off")
                          ELSE overflow_checks
    /\ edits' = IF starts_editing(app, key) THEN edits + 1 ELSE edits
    /\ UNCHANGED <<io_rx, io_pc, last>>

KeyEvent ==
    /\ Alive /\ ui_pc = "loop"
    /\ \E key \in (IF is_input THEN InputKeys ELSE Keys) :
          \E fs_ok \in FsOutcomes(app, key),
             checks \in Profiles(app, key, overflow_checks) :
                KeyStep(key, fs_ok, checks)

\* start_ui: InputEvent::Tick of the event loop, get_files_in_dir
\* succeeding iff list_ok
TickStep(list_ok) ==
    /\ Alive /\ ui_pc = "loop"
    /\ SetApp(update_on_tick(app, list_ok))
    /\ UNCHANGED <<overflow_checks, io_rx, ui_pc, io_pc, edits, last>>

Tick == \E list_ok \in BOOLEAN : TickStep(list_ok)

\* IoAsyncHandler::handle_io_event: recv and do_initialize
IoInitialize ==
    /\ Alive /\ io_pc = "idle" /\ io_rx # <<>>
    /\ SetApp(initialized(app))
    /\ io_rx' = Tail(io_rx)
    /\ io_pc' = "initialized"
    /\ UNCHANGED <<overflow_checks, ui_pc, edits, last>>

\* IoAsyncHandler::handle_io_event: app.loaded()
IoLoaded ==
    /\ Alive /\ io_pc = "initialized"
    /\ SetApp(loaded(app))
    /\ io_pc' = "idle"
    /\ UNCHANGED <<overflow_checks, io_rx, ui_pc, edits, last>>

Next ==
    \/ Dispatch
    \/ KeyEvent
    \/ Tick
    \/ IoInitialize
    \/ IoLoaded

Spec == Init /\ [][Next]_vars

\* Spec with the I/O task scheduled: the task spawned by edit() runs on the
\* tokio runtime and takes the App mutex, which is handed over in FIFO
\* order and which the event loop releases after every event
SpecLive == Spec /\ WF_vars(IoInitialize) /\ WF_vars(IoLoaded)

-----------------------------------------------------------------------------
(* SpecList: one DirListState driven by next, previous, unselect and poll  *)

\* the build profiles that can show where len - 1 may overflow
ProfileChoices(shows, known) ==
    IF ~shows THEN {TRUE}
    ELSE IF known = "on" THEN {TRUE}
    ELSE IF known = "off" THEN {FALSE}
    ELSE BOOLEAN

\* the profile known after a step made with overflow checks on iff checks
ProfileAfter(shows, known, checks) ==
    IF shows THEN (IF checks THEN "on" ELSE "off") ELSE known

\* the last n elements of a sequence
LastN(seq, n) ==
    IF Len(seq) <= n THEN seq ELSE SubSeq(seq, Len(seq) - n + 1, Len(seq))

\* the selections before each call of the current run of next() calls
RunOfNext == IF last.op = "next" THEN last.hist ELSE <<>>

\* the selection the model follows: a row up to MaxIndex, or usize::MAX
Followed(d) ==
    IsSome(d.state) =>
        (Unwrap(d.state) <= MaxIndex \/ Unwrap(d.state) = UsizeMax)

\* what SpecList leaves alone
ListFrame ==
    UNCHANGED <<actions, warn_log, input_buffer, is_loading, is_input,
                current_app_widget, previous_app_widget,
                current_selected_song, fs, io_rx, ui_pc, io_pc, edits>>

\* DirListState::new in a directory holding any of the files
ListInit ==
    /\ \E S \in SUBSET FileNames : InitApp(App_new([n \in S |-> None]))
    /\ overflow_checks = "unknown"
    /\ io_rx = <<>>
    /\ ui_pc = "start"
    /\ io_pc = "idle"
    /\ edits = 0
    /\ last = NoLast

\* a call of DirListState::next
LNextStep(checks) ==
    LET len == Len(dirlist.current_dir_file_names)
        shows == next_panics(dirlist.state, len, TRUE)
    IN /\ ~panicked
       /\ checks \in ProfileChoices(shows, overflow_checks)
       /\ IF next_panics(dirlist.state, len, checks)
          THEN panicked' = TRUE /\ dirlist' = dirlist
          ELSE panicked' = FALSE /\ dirlist' = DirListState_next(dirlist)
       /\ Followed(dirlist')
       /\ overflow_checks' = ProfileAfter(shows, overflow_checks, checks)
       /\ last' = [op |-> "next", pre |-> dirlist,
                   hist |-> LastN(Append(RunOfNext, dirlist.state), MaxFiles)]
       /\ ListFrame

LNext == \E checks \in BOOLEAN : LNextStep(checks)

\* a call of DirListState::previous
LPreviousStep(checks) ==
    LET len == Len(dirlist.current_dir_file_names)
        shows == previous_panics(dirlist.state, len, TRUE)
    IN /\ ~panicked
       /\ checks \in ProfileChoices(shows, overflow_checks)
       /\ IF previous_panics(dirlist.state, len, checks)
          THEN panicked' = TRUE /\ dirlist' = dirlist
          ELSE panicked' = FALSE /\ dirlist' = DirListState_previous(dirlist)
       /\ Followed(dirlist')
       /\ overflow_checks' = ProfileAfter(shows, overflow_checks, checks)
       /\ last' = [op |-> "previous", pre |-> dirlist]
       /\ ListFrame

LPrevious == \E checks \in BOOLEAN : LPreviousStep(checks)

\* a call of DirListState::unselect
LUnselect ==
    /\ ~panicked
    /\ dirlist' = DirListState_unselect(dirlist)
    /\ last' = [op |-> "unselect", pre |-> dirlist]
    /\ UNCHANGED <<panicked, overflow_checks>>
    /\ ListFrame

\* a call of DirListState::poll while the directory holds the files S
LPollStep(S) ==
    /\ ~panicked
    /\ dirlist' = poll(dirlist, S)
    /\ last' = [op |-> "poll", pre |-> dirlist, arg |-> S]
    /\ UNCHANGED <<panicked, overflow_checks>>
    /\ ListFrame

LPoll == \E S \in SUBSET FileNames : LPollStep(S)

ListNext ==
    \/ LNext
    \/ LPrevious
    \/ LUnselect
    \/ LPoll

SpecList == ListInit /\ [][ListNext]_vars

-----------------------------------------------------------------------------
(* SpecActions: one Actions value, from its construction to a look-up      *)

\* the lists a registry is built from: every list of up to MaxRegLen
\* variants, repetitions included, and the three lists of the App
ActionLists ==
    UNION {[1..n -> Action] : n \in 0..MaxRegLen}
        \cup {DirListingActions, MetadataEditorActions, LogViewerActions}

\* the keys looked up: every bound key and one that no action is bound to
FindKeys == BoundKeys \cup {KAlt("w")}

\* what SpecActions leaves alone
ActionsFrame ==
    UNCHANGED <<input_buffer, is_loading, is_input, current_app_widget,
                previous_app_widget, dirlist, current_selected_song, fs,
                io_rx, panicked, overflow_checks, ui_pc, io_pc, edits>>

\* App::new in an empty directory: the registry of [Quit]
ActionsInit ==
    /\ InitApp(App_new(<<>>))
    /\ overflow_checks = "unknown"
    /\ io_rx = <<>>
    /\ ui_pc = "start"
    /\ io_pc = "idle"
    /\ edits = 0
    /\ last = NoLast

\* Actions::from(list), the HashMap iterating in any order; an Actions
\* value is never modified, so a run follows the one value it builds
ABuildStep(list) ==
    /\ actions' = from_registry(list)
    /\ warn_log' \in from_warnings(list)
    /\ last' = [op |-> "from", list |-> list]
    /\ ActionsFrame

ABuild == last = NoLast /\ \E list \in ActionLists : ABuildStep(list)

\* Actions::find(key) on the registry; a look-up changes nothing, so a
\* run follows one look-up
AFindStep(key) ==
    /\ last' = [op |-> "find", key |-> key, result |-> find(actions, key)]
    /\ UNCHANGED <<actions, warn_log>>
    /\ ActionsFrame

AFind == last.op # "find" /\ \E key \in FindKeys : AFindStep(key)

ActionsNext ==
    \/ ABuild
    \/ AFind

SpecActions == ActionsInit /\ [][ActionsNext]_vars

-----------------------------------------------------------------------------
(* SpecMutex: the event loop and the I/O task sharing the App behind its   *)
(* tokio Mutex, every handler writing the fields one assignment at a time  *)

\* tokio::sync::Mutex::lock: the guard is handed out when nobody holds it
can_lock_while_held(owner) == TRUE

can_lock(owner) == owner = "none"

\* the keys delivered in SpecMutex: the three keys that switch between the
\* directory listing and the log viewer, Quit, and an unbound key
MutexKeys == {KCtrl("l"), KEsc, KChar("d"), KChar("q"), KAlt("w")}

\* the assignments of enter_dirlisting_widget / enter_log_viewer_widget,
\* in the order the code makes them
enter_writes(widget) ==
    << [w |-> "previous", v |-> widget],
       [w |-> "current", v |-> widget],
       [w |-> "actions", v |-> widget] >>

\* the assignments of DirListState::poll when the directory holds names:
\* the two ifs of set_items
poll_writes(d, names) ==
    LET l == get_files_in_dir(d.current_dir_path, names)
    IN << [w |-> "names", v |-> l.names], [w |-> "paths", v |-> l.paths] >>

\* the assignments do_action makes for a key of MutexKeys
key_writes(a, key) ==
    LET f == find(a.actions, key)
    IN CASE f = Some("SwitchToLogWidget") -> enter_writes("LogViewer")
         [] f = Some("SwitchToDirListWidget") -> enter_writes("DirListing")
         [] f = Some("SwitchToPreviousWidget") -> enter_writes("DirListing")
         [] OTHER -> <<>>

\* the events of the two tasks
DispatchEvent == [type |-> "Dispatch", key |-> <<>>, names |-> {}, ok |-> TRUE]
InitializeEvent ==
    [type |-> "Initialize", key |-> <<>>, names |-> {}, ok |-> TRUE]
LoadedEvent == [type |-> "Loaded", key |-> <<>>, names |-> {}, ok |-> TRUE]
TickEvent(names, ok) ==
    [type |-> "Tick", key |-> <<>>, names |-> names, ok |-> ok]
InputEvent(key) == [type |-> "Input", key |-> key, names |-> {}, ok |-> TRUE]

\* the assignments a task makes for an event, found from the App it sees
\* when it starts
writes_of(a, ev) ==
    CASE ev.type = "Dispatch" ->
           << [w |-> "is_loading", v |-> TRUE], [w |-> "send", v |-> TRUE] >>
      [] ev.type = "Tick" ->
           IF ev.ok THEN poll_writes(a.dirlist, ev.names)
           ELSE << [w |-> "panic", v |-> TRUE] >>
      [] ev.type = "Input" -> key_writes(a, ev.key)
      [] ev.type = "Initialize" -> enter_writes("DirListing")
      [] ev.type = "Loaded" -> << [w |-> "is_loading", v |-> FALSE] >>

\* one assignment, made on the App as it is when the assignment runs
apply_write(a, r) ==
    CASE r.w = "previous" ->
           [a EXCEPT !.previous_app_widget = a.current_app_widget]
      [] r.w = "current" -> [a EXCEPT !.current_app_widget = r.v]
      [] r.w = "actions" ->
           set_actions(a, IF r.v = "LogViewer" THEN LogViewerRegistry
                          ELSE DirListingRegistry)
      [] r.w = "names" ->
           IF a.dirlist.current_dir_file_names # r.v
           THEN [a EXCEPT !.dirlist.current_dir_file_names = r.v,
                          !.dirlist.state = None]
           ELSE a
      [] r.w = "paths" ->
           IF a.dirlist.current_dir_file_paths # r.v
           THEN [a EXCEPT !.dirlist.current_dir_file_paths = r.v,
                          !.dirlist.state = None]
           ELSE a
      [] r.w = "is_loading" -> [a EXCEPT !.is_loading = r.v]
      [] r.w = "panic" -> panic(a)
      [] OTHER -> a

\* the two tasks and the mutex: who holds the guard, and for each task
\* whether it is between lock() and the drop of its guard, the event it is
\* handling, the assignments it has still to make and the App it locked
NoTask == [in |-> FALSE, ev |-> None, todo |-> <<>>, pre |-> None]

MutexInit ==
    /\ \E files \in InitialDirs : InitApp(App_new(files))
    /\ overflow_checks = "unknown"
    /\ io_rx = <<>>
    /\ ui_pc = "start"
    /\ io_pc = "idle"
    /\ edits = 0
    /\ last = [op |-> "mutex", owner |-> "none", ui |-> NoTask, io |-> NoTask]

\* what no step of SpecMutex changes
MutexFrame == UNCHANGED <<overflow_checks, edits>>

\* what a step that does not touch the App leaves alone
AppFrame ==
    UNCHANGED <<actions, warn_log, input_buffer, is_loading, is_input,
                current_app_widget, previous_app_widget, dirlist,
                current_selected_song, fs, panicked>>

\* start_ui: app.lock().await, before the dispatch and at the top of the
\* event loop
MUiLock ==
    /\ Alive /\ ~last.ui.in
    /\ can_lock(last.owner)
    /\ last' = [last EXCEPT !.owner = "ui",
                            !.ui = [in |-> TRUE, ev |-> None, todo |-> <<>>,
                                    pre |-> Some(app)]]
    /\ AppFrame /\ MutexFrame
    /\ UNCHANGED <<io_rx, ui_pc, io_pc>>

\* start_ui takes up the event ev with the guard held
MUiTake(ev) ==
    /\ Alive /\ last.ui.in /\ last.ui.ev = None
    /\ last' = [last EXCEPT !.ui.ev = Some(ev),
                            !.ui.todo = writes_of(app, ev)]
    /\ AppFrame /\ MutexFrame
    /\ UNCHANGED <<io_rx, ui_pc, io_pc>>

\* start_ui: the dispatch before the loop, or events.next() in the loop
MUiEvent ==
    \/ ui_pc = "start" /\ MUiTake(DispatchEvent)
    \/ ui_pc = "loop" /\ \E ok \in BOOLEAN : MUiTake(TickEvent(DOMAIN fs, ok))
    \/ ui_pc = "loop" /\ \E key \in MutexKeys : MUiTake(InputEvent(key))

\* the next assignment of the handler the event loop is in
MUiWrite ==
    /\ Alive /\ last.ui.in /\ last.ui.ev # None /\ last.ui.todo # <<>>
    /\ IF Head(last.ui.todo).w = "send"
       THEN /\ io_rx' = Append(io_rx, "Initialize")
            /\ AppFrame
       ELSE /\ SetApp(apply_write(app, Head(last.ui.todo)))
            /\ io_rx' = io_rx
    /\ last' = [last EXCEPT !.ui.todo = Tail(last.ui.todo)]
    /\ MutexFrame
    /\ UNCHANGED <<ui_pc, io_pc>>

\* the handler has returned: the guard is dropped at the end of the block
\* or of the loop iteration, and Exit leaves the loop
MUiUnlock ==
    /\ Alive /\ last.ui.in /\ last.ui.ev # None /\ last.ui.todo = <<>>
    /\ last' = [last EXCEPT !.owner = "none", !.ui = NoTask]
    /\ ui_pc' = IF /\ Unwrap(last.ui.ev).type = "Input"
                   /\ do_action(Unwrap(last.ui.pre), Unwrap(last.ui.ev).key,
                                TRUE, TRUE).ret = "Exit"
                THEN "exited" ELSE "loop"
    /\ AppFrame /\ MutexFrame
    /\ UNCHANGED <<io_rx, io_pc>>

\* the I/O task: sync_io_rx.recv().await
MIoRecv ==
    /\ Alive /\ io_pc = "idle" /\ io_rx # <<>>
    /\ io_rx' = Tail(io_rx)
    /\ io_pc' = "received"
    /\ AppFrame /\ MutexFrame
    /\ UNCHANGED <<ui_pc, last>>

\* handle_io_event: self.app.lock().await in do_initialize, and again
\* before app.loaded()
MIoLock ==
    /\ Alive /\ ~last.io.in /\ io_pc \in {"received", "initialized"}
    /\ can_lock(last.owner)
    /\ LET ev == IF io_pc = "received" THEN InitializeEvent ELSE LoadedEvent
       IN last' = [last EXCEPT !.owner = "io",
                               !.io = [in |-> TRUE, ev |-> Some(ev),
                                       todo |-> writes_of(app, ev),
                                       pre |-> Some(app)]]
    /\ AppFrame /\ MutexFrame
    /\ UNCHANGED <<io_rx, ui_pc, io_pc>>

\* the next assignment of initialized() or loaded()
MIoWrite ==
    /\ Alive /\ last.io.in /\ last.io.todo # <<>>
    /\ SetApp(apply_write(app, Head(last.io.todo)))
    /\ last' = [last EXCEPT !.io.todo = Tail(last.io.todo)]
    /\ MutexFrame
    /\ UNCHANGED <<io_rx, ui_pc, io_pc>>

\* the guard of the I/O task is dropped
MIoUnlock ==
    /\ Alive /\ last.io.in /\ last.io.todo = <<>>
    /\ last' = [last EXCEPT !.owner = "none", !.io = NoTask]
    /\ io_pc' = IF io_pc = "received" THEN "initialized" ELSE "idle"
    /\ AppFrame /\ MutexFrame
    /\ UNCHANGED <<io_rx, ui_pc>>

\* another process creates or removes a file of the audio directory
MFsChange ==
    /\ Alive
    /\ \E n \in FileNames :
          SetApp([app EXCEPT !.fs =
              IF n \in DOMAIN fs
              THEN [m \in DOMAIN fs \ {n} |-> fs[m]]
              ELSE [m \in DOMAIN fs \cup {n} |->
                       IF m = n THEN None ELSE fs[m]]])
    /\ MutexFrame
    /\ UNCHANGED <<io_rx, ui_pc, io_pc, last>>

MutexNext ==
    \/ MUiLock
    \/ MUiEvent
    \/ MUiWrite
    \/ MUiUnlock
    \/ MIoRecv
    \/ MIoLock
    \/ MIoWrite
    \/ MIoUnlock
    \/ MFsChange

SpecMutex == MutexInit /\ [][MutexNext]_vars

-----------------------------------------------------------------------------
(* The database-backed song (data/song.rs, data/database.rs)               *)

\* Song::default of data/song.rs: the editor's fields and the database's
DataSong_default ==
    [file_path |-> <<>>, file_name |-> <<>>, tag |-> Tag_default,
     title |-> None, artists |-> None, album |-> None,
     items |-> <<>>, state |-> None, initialized |-> FALSE,
     id |-> None, genre |-> None, youtube_id |-> None,
     thumbnail_url |-> None, metadata_source |-> "File"]

\* Song::read_music_file of data/song.rs
Data_read_music_file(files, path) ==
    IF IsSome(read_from_path(files, path))
    THEN Some(populate_list_items(init(
            [DataSong_default EXCEPT
                !.file_path = path,
                !.file_name = file_name_of(path),
                !.tag = Unwrap(read_from_path(files, path))])))
    ELSE None

\* the loop of from_database and of the data edit_artist: the tokens
\* between ':' with the empty ones skipped
non_empty_tokens(s) == SelectSeq(split(s, ":"), LAMBDA t : t # <<>>)

\* Path::to_str of a path whose components are valid UTF-8: the components
\* with '/' between them
RECURSIVE Path_to_str(_)
Path_to_str(path) ==
    IF path = <<>> THEN <<>>
    ELSE IF Len(path) = 1 THEN Head(path)
    ELSE Head(path) \o <<"/">> \o Path_to_str(Tail(path))

\* Path::new of a relative path given as text: its components; PathBuf
\* compares by components, so repeated and trailing separators are dropped
Path_new(s) == SelectSeq(split(s, "/"), LAMBDA c : c # <<>>)

\* the artists from_database decodes from the stored column
decode_artists(artists) ==
    IF IsSome(artists) THEN Some(non_empty_tokens(Unwrap(artists)))
    ELSE None

\* Song::from_database: the record, or a panic at title.clone().unwrap()
\* or artists.clone().unwrap()
from_database(id, path, file_name, title, artists, album, genre, youtube_id, thumbnail_url) ==
    LET decoded == decode_artists(artists)
        tag1 == set_vorbis(Tag_default, "TITLE", <<Unwrap(title)>>)
        tag2 == set_vorbis(tag1, "ARTIST", Unwrap(decoded))
        tag3 == IF IsSome(album)
                THEN set_vorbis(tag2, "ALBUM", <<Unwrap(album)>>)
                ELSE tag2
    IN IF ~IsSome(title) \/ ~IsSome(decoded)
       THEN [panics |-> TRUE, song |-> DataSong_default]
       ELSE [panics |-> FALSE,
             song |-> populate_list_items(
                 [DataSong_default EXCEPT
                     !.id = id, !.file_path = Path_new(path),
                     !.file_name = file_name,
                     !.tag = tag3, !.title = title, !.artists = decoded,
                     !.album = album, !.genre = genre,
                     !.youtube_id = youtube_id,
                     !.thumbnail_url = thumbnail_url,
                     !.initialized = FALSE,
                     !.metadata_source = "Database"])]

\* Song::edit_artist of data/song.rs
Data_edit_artist(song, new_value) ==
    [song EXCEPT !.tag = set_vorbis(song.tag, "ARTIST",
                                    non_empty_tokens(new_value)),
                 !.artists = Some(non_empty_tokens(new_value))]

\* Song::edit of data/song.rs: [song, files] after the call
Data_edit(song, new_value, files, rename_ok) ==
    LET index == IF IsSome(song.state) THEN Unwrap(song.state) ELSE 10
    IN CASE index = 0 ->
              LET r == edit_filename(song, new_value, files, rename_ok)
              IN [song |-> populate_list_items(r.song), files |-> r.files]
         [] index = 1 ->
              [song |-> populate_list_items(edit_title(song, new_value)),
               files |-> files]
         [] index = 2 ->
              [song |-> populate_list_items(Data_edit_artist(song, new_value)),
               files |-> files]
         [] index = 3 ->
              [song |-> populate_list_items(edit_album(song, new_value)),
               files |-> files]
         [] OTHER -> [song |-> song, files |-> files]

\* an equate that does not compare the albums
equate_ignoring_album(song_left, song_right) ==
    /\ song_left.title = song_right.title
    /\ song_left.artists = song_right.artists
    /\ song_left.genre = song_right.genre
    /\ song_left.youtube_id = song_right.youtube_id
    /\ song_left.thumbnail_url = song_right.thumbnail_url
    /\ song_left.file_name = song_right.file_name
    /\ song_left.file_path = song_right.file_path

\* Song::equate
equate(song_left, song_right) ==
    /\ song_left.title = song_right.title
    /\ song_left.artists = song_right.artists
    /\ song_left.album = song_right.album
    /\ song_left.genre = song_right.genre
    /\ song_left.youtube_id = song_right.youtube_id
    /\ song_left.thumbnail_url = song_right.thumbnail_url
    /\ song_left.file_name = song_right.file_name
    /\ song_left.file_path = song_right.file_path

\* Database::insert_song: the row stored for the song; the id is the one
\* SQLite gives the row
insert_song(song, rowid) ==
    [id |-> Some(rowid),
     song_path |-> Path_to_str(song.file_path),
     song_filename |-> song.file_name,
     song_title |-> song.title,
     song_artist |-> Some(artist_string(IF IsSome(song.artists)
                                        THEN Unwrap(song.artists)
                                        ELSE <<NoneStr>>)),
     song_album |-> song.album,
     song_genre |-> song.genre,
     song_youtube_id |-> song.youtube_id,
     song_thumbnail_url |-> song.thumbnail_url]

\* the closure of query_all_song_data on one row
song_of_row(row) ==
    from_database(row.id, row.song_path, row.song_filename, row.song_title,
                  row.song_artist, row.song_album, row.song_genre,
                  row.song_youtube_id, row.song_thumbnail_url)

-----------------------------------------------------------------------------
(* SpecSong: one Song, loaded from a file or from a database row, then     *)
(* edited and written, in a directory other processes may touch            *)

\* how many loads, edits and writes a run of SpecSong makes
MaxSongOps == 3

\* the tag blocks the files of SpecSong start with: a full one, and one
\* with two titles and neither artist nor album
SongTags ==
    InitTags \cup {[TITLE |-> Some(<< <<"t">>, <<"u">> >>),
                    ARTIST |-> None, ALBUM |-> None]}

\* the directories SpecSong starts in
SongDirs ==
    UNION {[S -> {None} \cup {Some(t) : t \in SongTags}] :
              S \in SUBSET FileNames}

\* the values given to edit: the empty string, a plain one, and one with
\* empty tokens between and after its separators
SongValues == {<<>>, <<"b">>, <<"a", ":", ":", "b", ":">>}

\* the rows from_database is given: title and album present or NULL, the
\* artist column NULL, a list, or separators only
DatabaseRows ==
    {[id |-> Some(1), song_path |-> <<"m", "/", "a">>,
      song_filename |-> <<"a">>, song_title |-> t, song_artist |-> ar,
      song_album |-> al, song_genre |-> None, song_youtube_id |-> None,
      song_thumbnail_url |-> None] :
        t \in {None, Some(<<"t">>)},
        ar \in {None, Some(<<"x", ":", "y", ":">>), Some(<<":", ":">>)},
        al \in {None, Some(<<"l">>)}}

\* the record is a data/song.rs Song
is_data(song) == "id" \in DOMAIN song

\* the record was loaded: read_music_file or from_database has filled it
is_loaded(song) == song.items # <<>>

\* the value Song::edit and Song::edit_filename return: both are declared
\* without a return type
edit_returns == "()"

\* what SpecSong leaves alone
SongFrame ==
    UNCHANGED <<actions, warn_log, input_buffer, is_loading, is_input,
                current_app_widget, previous_app_widget, dirlist, io_rx,
                overflow_checks, ui_pc, io_pc>>

\* no operation has been made
NoSongOp ==
    [op |-> "none", pre |-> Song_default, arg |-> <<>>, ok |-> TRUE,
     reread |-> TRUE, ret |-> "()"]

SongInit ==
    /\ \E files \in SongDirs : InitApp(App_new(files))
    /\ overflow_checks = "unknown"
    /\ io_rx = <<>>
    /\ ui_pc = "start"
    /\ io_pc = "idle"
    /\ edits = 0
    /\ last = NoSongOp

\* Song::read_music_file(path) of edit/app/song.rs or of data/song.rs
SLoadStep(n, data) ==
    LET path == PathOf(AudioDir, n)
        r == IF data THEN Data_read_music_file(fs, path)
             ELSE read_music_file(fs, path)
    IN /\ ~panicked /\ edits < MaxSongOps
       /\ current_selected_song' = IF IsSome(r) THEN Unwrap(r)
                                   ELSE current_selected_song
       /\ last' = [NoSongOp EXCEPT !.op = "read_music_file",
                                   !.pre = current_selected_song,
                                   !.arg = n, !.ok = IsSome(r),
                                   !.ret = IF IsSome(r) THEN "Ok"
                                           ELSE "TagReadError"]
       /\ edits' = edits + 1
       /\ UNCHANGED <<fs, panicked>>
       /\ SongFrame

SLoad == \E n \in DOMAIN fs, data \in BOOLEAN : SLoadStep(n, data)

\* Song::from_database on a row
SFromDatabaseStep(row) ==
    LET r == song_of_row(row)
    IN /\ ~panicked /\ edits < MaxSongOps
       /\ current_selected_song' = IF r.panics THEN current_selected_song
                                   ELSE r.song
       /\ panicked' = r.panics
       /\ last' = [NoSongOp EXCEPT !.op = "from_database",
                                   !.pre = current_selected_song,
                                   !.arg = row, !.ok = ~r.panics,
                                   !.ret = "Ok"]
       /\ edits' = edits + 1
       /\ UNCHANGED fs
       /\ SongFrame

SFromDatabase ==
    /\ ~is_loaded(current_selected_song)
    /\ \E row \in DatabaseRows : SFromDatabaseStep(row)

\* Song::next / Song::previous on a loaded record
SSelect ==
    /\ ~panicked /\ is_loaded(current_selected_song)
    /\ \/ current_selected_song' = Song_next(current_selected_song)
       \/ current_selected_song' = Song_previous(current_selected_song)
    /\ last' = [NoSongOp EXCEPT !.op = "select",
                                !.pre = current_selected_song]
    /\ UNCHANGED <<fs, panicked, edits>>
    /\ SongFrame

\* Song::edit(new_value) on a loaded record, std::fs::rename succeeding
\* iff rename_ok
SEditStep(new_value, rename_ok) ==
    LET song == current_selected_song
        r == IF is_data(song) THEN Data_edit(song, new_value, fs, rename_ok)
             ELSE edit(song, new_value, fs, rename_ok)
        renames == song.state = Some(0)
        renamed == /\ renames /\ rename_ok
                   /\ rename_possible(fs, file_name_of(song.file_path))
    IN /\ ~panicked /\ edits < MaxSongOps
       /\ is_loaded(song)
       /\ ~renames => rename_ok
       /\ current_selected_song' = r.song
       /\ fs' = r.files
       /\ last' = [NoSongOp EXCEPT
                      !.op = "edit", !.pre = song, !.arg = new_value,
                      !.ok = (renames => renamed),
                      !.reread = (renamed =>
                          IsSome(read_from_path(r.files, r.song.file_path))),
                      !.ret = edit_returns]
       /\ edits' = edits + 1
       /\ UNCHANGED panicked
       /\ SongFrame

SEdit ==
    \E new_value \in SongValues, rename_ok \in BOOLEAN :
        SEditStep(new_value, rename_ok)

\* Song::write_tag_changes on a loaded record, Tag::write_to_path
\* succeeding iff ok
SWriteStep(ok) ==
    /\ ~panicked /\ edits < MaxSongOps
    /\ is_loaded(current_selected_song)
    /\ fs' = IF ok THEN write_tag_changes(current_selected_song, fs) ELSE fs
    /\ last' = [NoSongOp EXCEPT !.op = "write_tag_changes",
                                !.pre = current_selected_song, !.ok = ok,
                                !.ret = IF ok THEN "Ok" ELSE "TagWriteError"]
    /\ edits' = edits + 1
    /\ UNCHANGED <<current_selected_song, panicked>>
    /\ SongFrame

SWrite == \E ok \in BOOLEAN : SWriteStep(ok)

\* another process overwrites a file so that its tag block is unreadable
SCorrupt ==
    /\ ~panicked
    /\ \E n \in DOMAIN fs :
          /\ fs[n] # None
          /\ fs' = [fs EXCEPT ![n] = None]
    /\ UNCHANGED <<current_selected_song, panicked, edits, last>>
    /\ SongFrame

SongNext ==
    \/ SLoad
    \/ SFromDatabase
    \/ SSelect
    \/ SEdit
    \/ SWrite
    \/ SCorrupt

SpecSong == SongInit /\ [][SongNext]_vars

-----------------------------------------------------------------------------
(* SpecDatabase: a record is inserted into a fresh database and the table  *)
(* is queried back (data/database.rs, tests::open_database_write_song)     *)

\* how many rows a run of SpecDatabase inserts
MaxRows == 1

\* the names an artist list is made of: plain ones, the word the encoding
\* treats specially, and the empty name
ArtistNames == {<<"x">>, <<"y">>, NoneStr, <<>>}

\* artist lists: absent, empty, or of one or two names
ArtistLists ==
    {None, Some(<<>>)}
        \cup {Some(<<a>>) : a \in ArtistNames}
        \cup {Some(<<a, b>>) : a \in ArtistNames, b \in ArtistNames}

\* the records the test builds: Song { .., ..Default::default() }
OriginalSongs ==
    {[DataSong_default EXCEPT
         !.file_path = << <<"m">>, <<"a">> >>, !.file_name = <<"a">>,
         !.title = t, !.artists = ar, !.album = al, !.genre = g] :
        t \in {None, Some(<<"t">>)}, ar \in ArtistLists,
        al \in {None, Some(<<"l">>)}, g \in {None, Some(<<"g">>)}}

\* Database::open_from_path on a path without a file: the table is empty
NoDatabaseOp == [op |-> "open", rows |-> <<>>, songs |-> <<>>, ret |-> "Ok"]

DatabaseInit ==
    /\ \E song \in OriginalSongs :
          InitApp([App_new([n \in {} |-> None])
                      EXCEPT !.current_selected_song = song])
    /\ overflow_checks = "unknown"
    /\ io_rx = <<>>
    /\ ui_pc = "start"
    /\ io_pc = "idle"
    /\ edits = 0
    /\ last = NoDatabaseOp

\* database.insert_song(&original_song)
DInsert ==
    /\ ~panicked /\ Len(last.rows) < MaxRows
    /\ last' = [last EXCEPT
                   !.op = "insert_song",
                   !.rows = Append(last.rows,
                                   insert_song(current_selected_song,
                                               Len(last.rows) + 1)),
                   !.songs = <<>>, !.ret = "Ok"]
    /\ UNCHANGED <<current_selected_song, fs, panicked, edits>>
    /\ SongFrame

\* database.query_all_song_data(): the songs of the rows, an error when
\* there is none, a panic when from_database panics on a row
DQuery ==
    LET results == [i \in 1..Len(last.rows) |-> song_of_row(last.rows[i])]
        panics == \E i \in 1..Len(results) : results[i].panics
    IN /\ ~panicked /\ last.op # "query_all_song_data"
       /\ panicked' = panics
       /\ last' = [last EXCEPT
                      !.op = "query_all_song_data",
                      !.songs = IF panics THEN <<>>
                                ELSE [i \in 1..Len(results) |->
                                         results[i].song],
                      !.ret = IF panics THEN "panic"
                              ELSE IF results = <<>> THEN "Err" ELSE "Ok"]
       /\ UNCHANGED <<current_selected_song, fs, edits>>
       /\ SongFrame

DatabaseNext == DInsert \/ DQuery

SpecDatabase == DatabaseInit /\ [][DatabaseNext]_vars

-----------------------------------------------------------------------------
(* SpecEquate: Song::equate applied to two records (data/song.rs)          *)

\* a record with every field present
EquateBase ==
    [DataSong_default EXCEPT
        !.id = Some(1), !.file_path = << <<"m">>, <<"a">> >>,
        !.file_name = <<"a">>,
        !.tag = [TITLE |-> Some(<< <<"t">> >>), ARTIST |-> Some(<< <<"x">> >>),
                 ALBUM |-> Some(<< <<"l">> >>)],
        !.title = Some(<<"t">>), !.artists = Some(<< <<"x">> >>),
        !.album = Some(<<"l">>), !.genre = Some(<<"g">>),
        !.youtube_id = Some(<<"y">>), !.thumbnail_url = Some(<<"u">>),
        !.items = << <<"a">> >>, !.state = Some(0)]

\* the records equate is given: the base record, the records that differ
\* from it in one field, and the default record
EquateSongs ==
    {EquateBase, DataSong_default,
     [EquateBase EXCEPT !.title = None],
     [EquateBase EXCEPT !.artists = Some(<< <<"x">>, <<"y">> >>)],
     [EquateBase EXCEPT !.album = None],
     [EquateBase EXCEPT !.genre = None],
     [EquateBase EXCEPT !.youtube_id = Some(<<"z">>)],
     [EquateBase EXCEPT !.thumbnail_url = None],
     [EquateBase EXCEPT !.file_name = <<"b">>],
     [EquateBase EXCEPT !.file_path = << <<"m">>, <<"b">> >>],
     [EquateBase EXCEPT !.id = None],
     [EquateBase EXCEPT !.tag = Tag_default],
     [EquateBase EXCEPT !.state = Some(3)],
     [EquateBase EXCEPT !.items = <<>>],
     [EquateBase EXCEPT !.initialized = TRUE, !.metadata_source = "Database"]}

EquateInit ==
    /\ \E song \in EquateSongs :
          InitApp([App_new([n \in {} |-> None])
                      EXCEPT !.current_selected_song = song])
    /\ overflow_checks = "unknown"
    /\ io_rx = <<>>
    /\ ui_pc = "start"
    /\ io_pc = "idle"
    /\ edits = 0
    /\ last = [op |-> "none"]

\* Song::equate(&left, &right) and Song::equate(&right, &left), left being
\* the record at hand
EEquate ==
    \E song_right \in EquateSongs :
        /\ last' = [op |-> "equate", right |-> song_right,
                    ret |-> equate(current_selected_song, song_right),
                    swapped |-> equate(song_right, current_selected_song)]
        /\ UNCHANGED <<current_selected_song, fs, panicked, edits>>
        /\ SongFrame

SpecEquate == EquateInit /\ [][EEquate]_vars

-----------------------------------------------------------------------------
(* SpecUpdate: rows are inserted into the songs table and updated          *)
(* (data/database.rs, tests::open_database_update_song)                    *)

\* how many insert_song and update_song calls a run of SpecUpdate makes
MaxDbOps == 3

\* the row INSERT stores: the columns of insert_song and date_added
inserted_row(song, rowid, now) ==
    LET r == insert_song(song, rowid)
    IN [c \in DOMAIN r \cup {"date_added"} |->
           IF c = "date_added" THEN now ELSE r[c]]

\* the row UPDATE songs SET ... leaves for a row it applies to
updated_row(row, song) ==
    [row EXCEPT
        !.song_path = Path_to_str(song.file_path),
        !.song_filename = song.file_name,
        !.song_title = song.title,
        !.song_artist = Some(artist_string(IF IsSome(song.artists)
                                           THEN Unwrap(song.artists)
                                           ELSE <<NoneStr>>)),
        !.song_album = song.album,
        !.song_genre = song.genre,
        !.song_youtube_id = song.youtube_id,
        !.song_thumbnail_url = song.thumbnail_url]

\* an update_song without its WHERE clause
update_song_every_row(rows, song) ==
    [i \in 1..Len(rows) |-> updated_row(rows[i], song)]

\* Database::update_song: the table after UPDATE ... WHERE id = ?1; the
\* comparison with a NULL id is true of no row
update_song(rows, song) ==
    [i \in 1..Len(rows) |->
        IF IsSome(song.id) /\ rows[i].id = song.id
        THEN updated_row(rows[i], song)
        ELSE rows[i]]

\* the records the test inserts: its original_song and a default record
InsertedSongs ==
    {[DataSong_default EXCEPT
         !.file_path = << <<"m">>, <<"a">> >>, !.file_name = <<"a">>,
         !.title = Some(<<"t">>), !.artists = Some(<< <<"x">> >>)],
     DataSong_default}

\* the records update_song is given: a record with the id of the first
\* row, of the second row, of no row, or without an id
UpdatingSongs ==
    {[DataSong_default EXCEPT
         !.id = i, !.file_path = << <<"m">>, <<"b">> >>,
         !.file_name = <<"b">>, !.title = t, !.artists = ar,
         !.album = Some(<<"l">>)] :
        i \in {None, Some(1), Some(2), Some(3)},
        t \in {None, Some(<<"u">>)},
        ar \in {None, Some(<< <<"x">>, <<"y">> >>)}}

UpdateInit ==
    /\ InitApp(App_new([n \in {} |-> None]))
    /\ overflow_checks = "unknown"
    /\ io_rx = <<>>
    /\ ui_pc = "start"
    /\ io_pc = "idle"
    /\ edits = 0
    /\ last = [op |-> "open", pre |-> <<>>, rows |-> <<>>,
               song |-> DataSong_default]

\* database.insert_song(&song) at the time `edits`
UInsert ==
    \E song \in InsertedSongs :
        /\ edits < MaxDbOps
        /\ last' = [op |-> "insert_song", pre |-> last.rows,
                    rows |-> Append(last.rows,
                                    inserted_row(song, Len(last.rows) + 1,
                                                 edits)),
                    song |-> song]
        /\ edits' = edits + 1
        /\ UNCHANGED <<current_selected_song, fs, panicked>>
        /\ SongFrame

\* database.update_song(&song)
UUpdate ==
    \E song \in UpdatingSongs :
        /\ edits < MaxDbOps
        /\ last' = [op |-> "update_song", pre |-> last.rows,
                    rows |-> update_song(last.rows, song),
                    song |-> song]
        /\ edits' = edits + 1
        /\ UNCHANGED <<current_selected_song, fs, panicked>>
        /\ SongFrame

UpdateNext == UInsert \/ UUpdate

SpecUpdate == UpdateInit /\ [][UpdateNext]_vars

-----------------------------------------------------------------------------
(* SpecSize: start_ui looks at the size of the terminal (edit/mod.rs,      *)
(* edit/ui.rs)                                                             *)

\* widths and heights of the terminal, tui::layout::Rect's u16 fields
TerminalWidths == {0, 1, 15, 29, 30, 31, 80, 65535}
TerminalHeights == {0, 1, 14, 15, 16, 19, 24, 65535}

\* check_size
check_size(rect) == ~(rect.width < 30 \/ rect.height < 15)

\* the messages start_ui logs after the dispatch of Initialize:
\* if check_size(&terminal.size()?) { warn!("Terminal too smol") }
size_warnings(rect) ==
    IF check_size(rect) THEN <<"Terminal too smol">> ELSE <<>>

SizeInit ==
    /\ InitApp(App_new([n \in {} |-> None]))
    /\ overflow_checks = "unknown"
    /\ io_rx = <<>>
    /\ ui_pc = "start"
    /\ io_pc = "idle"
    /\ edits = 0
    /\ \E w \in TerminalWidths, h \in TerminalHeights :
          last = [op |-> "none",
                  rect |-> [x |-> 0, y |-> 0, width |-> w, height |-> h],
                  warned |-> <<>>]

\* start_ui up to its loop: Initialize is dispatched, the size is checked
SStartUi ==
    /\ ui_pc = "start"
    /\ ui_pc' = "loop"
    /\ io_rx' = Append(io_rx, "Initialize")
    /\ last' = [last EXCEPT !.op = "start_ui",
                            !.warned = size_warnings(last.rect)]
    /\ UNCHANGED <<actions, warn_log, input_buffer, is_loading, is_input,
                   current_app_widget, previous_app_widget, dirlist,
                   current_selected_song, fs, panicked, overflow_checks,
                   io_pc, edits>>

SpecSize == SizeInit /\ [][SStartUi]_vars

-----------------------------------------------------------------------------
(* SpecInput: input sessions of the metadata editor over a loaded record,  *)
(* with what was typed in the running session kept beside the App          *)

\* how many input sessions a run of SpecInput begins
MaxSessions == 2
\* how many characters the input buffer holds at most
MaxInputLen == 2

\* the keys of SpecInput: 'j' (SelectDown, or a character), Enter (begin
\* and commit), Esc (cancel), Backspace, and 'd' (a character, or
\* SwitchToDirListWidget)
SessionKeys == {KChar("j"), KEnter, KEsc, KBackspace, KChar("d")}

\* the editor over the record of a.flac: Initialize was handled and Enter
\* was pressed in the directory listing
EditorOverRecord ==
    LET files == [n \in {<<"a">>} |->
                     Some(CHOOSE t \in InitTags : TRUE)]
    IN do_action(loaded(initialized(App_new(files))), KEnter, TRUE, TRUE).app

\* what a key does to the text typed in the running session
typed_after(a, key, typed) ==
    IF starts_editing(a, key) THEN <<>>
    ELSE IF a.is_input /\ key[1] = "Char" THEN Append(typed, key[2])
    ELSE IF a.is_input /\ key = KBackspace /\ typed # <<>>
         THEN SubSeq(typed, 1, Len(typed) - 1)
    ELSE typed

\* no input session has begun
NoSession ==
    [op |-> "none", typed |-> <<>>, committed |-> None, cancelled |-> FALSE,
     stale |-> FALSE, row |-> None]

InputInit ==
    /\ InitApp(EditorOverRecord)
    /\ overflow_checks = "unknown"
    /\ io_rx = <<>>
    /\ ui_pc = "loop"
    /\ io_pc = "idle"
    /\ edits = 0
    /\ last = NoSession

\* start_ui: InputEvent::Input(key) handled by do_action. last.committed is
\* the text stop_editing takes from the buffer, last.cancelled whether an
\* input session was cancelled since the latest commit, last.stale whether
\* one was before the commit just made
IKeyStep(key, fs_ok) ==
    /\ Alive /\ ui_pc = "loop"
    /\ starts_editing(app, key) => edits < MaxSessions
    /\ (is_input /\ key[1] = "Char") =>
           Len(input_buffer.buffer) < MaxInputLen
    /\ fs_ok \in FsOutcomes(app, key)
    /\ SetApp(do_action(app, key, fs_ok, TRUE).app)
    /\ edits' = IF starts_editing(app, key) THEN edits + 1 ELSE edits
    /\ last' =
          [op |-> IF starts_editing(app, key) THEN "begin"
                  ELSE IF is_input /\ key = KEnter THEN "commit"
                  ELSE IF is_input /\ key = KEsc THEN "cancel"
                  ELSE IF is_input THEN "type"
                  ELSE "key",
           typed |-> typed_after(app, key, last.typed),
           committed |-> IF is_input /\ key = KEnter
                         THEN Some(get_buffer_drain(input_buffer).buffer)
                         ELSE last.committed,
           cancelled |-> IF is_input /\ key = KEnter THEN FALSE
                         ELSE IF is_input /\ key = KEsc THEN TRUE
                         ELSE last.cancelled,
           stale |-> IF is_input /\ key = KEnter THEN last.cancelled
                     ELSE last.stale,
           row |-> current_selected_song.state]
    /\ UNCHANGED <<overflow_checks, io_rx, ui_pc, io_pc>>

IKey ==
    \E key \in SessionKeys, fs_ok \in BOOLEAN : IKeyStep(key, fs_ok)

SpecInput == InputInit /\ [][IKey]_vars

-----------------------------------------------------------------------------
(* The properties                                                          *)

\* the selection sel is a row of a list of len items
SelectionWithin(sel, len) == IsSome(sel) => Unwrap(sel) < len

\* the least element of a non-empty set of numbers
Minimum(S) == CHOOSE m \in S : \A n \in S : m <= n

\* C1 (as stated): in the browse list and in the record's field list the
\* selected index, if present, is less than the number of items, and an
\* empty list has no selection
C1_SelectionWithinItems ==
    /\ SelectionWithin(dirlist.state, Len(dirlist.current_dir_file_names))
    /\ dirlist.current_dir_file_names = <<>> => dirlist.state = None
    /\ SelectionWithin(current_selected_song.state,
                       Len(current_selected_song.items))
    /\ current_selected_song.items = <<>> =>
           current_selected_song.state = None

\* C2: on a list of n > 0 items next() selects row 0 when nothing is
\* selected and row (i + 1) mod n otherwise; previous() selects row 0 when
\* nothing is selected, row n - 1 from row 0 and row i - 1 otherwise; neither
\* call aborts
C2_NextPreviousOnNonEmpty ==
    LET n == Len(last.pre.current_dir_file_names)
        sel == last.pre.state
    IN /\ (last.op = "next" /\ n > 0) =>
            /\ ~panicked
            /\ dirlist.state = IF sel = None THEN Some(0)
                               ELSE Some((Unwrap(sel) + 1) % n)
       /\ (last.op = "previous" /\ n > 0) =>
            /\ ~panicked
            /\ dirlist.state = IF sel = None THEN Some(0)
                               ELSE IF Unwrap(sel) = 0 THEN Some(n - 1)
                               ELSE Some(Unwrap(sel) - 1)

\* C2's case: next() called on the last row of a list of two or more
\* items went back to row 0
C2_Witness ==
    /\ last.op = "next"
    /\ Len(last.pre.current_dir_file_names) >= 2
    /\ last.pre.state = Some(Len(last.pre.current_dir_file_names) - 1)
    /\ dirlist.state = Some(0)

\* C3: after n consecutive next() calls on a list of n > 0 items that had
\* a row selected before the first of them, that row is selected again
C3_FullCycleReturns ==
    (last.op = "next" /\ ~panicked) =>
        LET n == Len(dirlist.current_dir_file_names)
            h == last.hist
        IN (n > 0 /\ Len(h) >= n /\ IsSome(h[Len(h) - n + 1])) =>
               dirlist.state = h[Len(h) - n + 1]

\* C3's case: two or more next() calls in a row made a full cycle from a
\* selected row
C3_Witness ==
    /\ last.op = "next"
    /\ Len(dirlist.current_dir_file_names) >= 2
    /\ Len(last.hist) >= Len(dirlist.current_dir_file_names)
    /\ IsSome(last.hist[Len(last.hist)
                        - Len(dirlist.current_dir_file_names) + 1])
    /\ dirlist.state = last.hist[Len(last.hist)
                                 - Len(dirlist.current_dir_file_names) + 1]

\* C4: poll()/set_items with a listing equal by value to the current one
\* leaves the list and its selection as they were; with a different listing
\* it installs the new names and paths and clears the selection
C4_ReplaceItems ==
    last.op = "poll" =>
        LET l == get_files_in_dir(last.pre.current_dir_path, last.arg)
        IN IF /\ l.names = last.pre.current_dir_file_names
              /\ l.paths = last.pre.current_dir_file_paths
           THEN dirlist = last.pre
           ELSE /\ dirlist.current_dir_file_names = l.names
                /\ dirlist.current_dir_file_paths = l.paths
                /\ dirlist.state = None

\* C4's case: a different listing arrived while a row was selected
C4_Witness ==
    /\ last.op = "poll"
    /\ IsSome(last.pre.state)
    /\ SortStrings(last.arg) # last.pre.current_dir_file_names
    /\ dirlist.current_dir_file_names = SortStrings(last.arg)
    /\ dirlist.state = None

\* the positions, in the sequence order, of the actions that the registry
\* enables and that are bound to the key
EnabledAndBound(order, registry, key) ==
    {i \in 1..Len(order) :
        order[i] \in Range(registry) /\ key \in Range(keys(order[i]))}

\* C5 (amended): find returns the first action, in the declaration order
\* of enum Action, that the registry enables and that is bound to the key,
\* and None when there is none; the order the registry was built in plays
\* no part
C5_FirstInDeclarationOrder ==
    last.op = "find" =>
        LET c == EnabledAndBound(ActionIter, actions, last.key)
        IN last.result = IF c = {} THEN None
                         ELSE Some(ActionIter[Minimum(c)])

\* C5's case: Esc looked up in the LogView set gave SwitchToPreviousWidget,
\* registered last and declared before LogExitPageMode
C5_Witness ==
    /\ last.op = "find"
    /\ actions = LogViewerActions
    /\ last.key = KEsc
    /\ last.result = Some("SwitchToPreviousWidget")

\* C5 (as stated): find returns the first action, in the order the registry
\* was built in, that is bound to the key
C5_FirstInRegistrationOrder ==
    last.op = "find" =>
        LET c == EnabledAndBound(actions, actions, last.key)
        IN last.result = IF c = {} THEN None ELSE Some(actions[Minimum(c)])

\* C6: find returns Some(a) only for an action a of the registry whose keys
\* contain the key, and None exactly when the registry has no action bound
\* to the key
C6_FindSoundAndComplete ==
    last.op = "find" =>
        /\ IsSome(last.result) =>
              /\ Unwrap(last.result) \in Range(actions)
              /\ last.key \in Range(keys(Unwrap(last.result)))
        /\ last.result = None <=>
              ~\E a \in Range(actions) : last.key \in Range(keys(a))

\* C6's case: a key bound to some variant was looked up in a registry that
\* enables other actions only
C6_Witness ==
    /\ last.op = "find"
    /\ actions # <<>>
    /\ last.key \in BoundKeys
    /\ last.result = None

\* the positions of the list whose action is bound to the key
Colliding(list, key) ==
    {i \in 1..Len(list) : key \in Range(keys(list[i]))}

\* the parts of the logged messages that report the key
ReportsOf(key) ==
    {p \in UNION {Range(warn_log[m]) : m \in 1..Len(warn_log)} :
        p.key = key}

\* how many parts of the logged messages report the key
ReportCount(key) ==
    Cardinality(UNION {{<<m, i>> : i \in {j \in 1..Len(warn_log[m]) :
                                              warn_log[m][j].key = key}} :
                          m \in 1..Len(warn_log)})

\* C7: Actions::from does not abort and keeps the list as the registry; for
\* every key that two or more entries of the list are bound to it logs
\* exactly one report, naming each of those entries; for every other key it
\* logs none, and for a list without such a key it logs nothing
C7_OneReportPerSharedKey ==
    last.op = "from" =>
        /\ ~panicked
        /\ actions = last.list
        /\ \A k \in FindKeys :
              IF Cardinality(Colliding(last.list, k)) > 1
              THEN /\ ReportCount(k) = 1
                   /\ \A p \in ReportsOf(k) :
                         /\ Len(p.actions) =
                                Cardinality(Colliding(last.list, k))
                         /\ \A i \in Colliding(last.list, k) :
                                last.list[i] \in Range(p.actions)
              ELSE ReportCount(k) = 0
        /\ (\A k \in FindKeys : Cardinality(Colliding(last.list, k)) <= 1)
              => warn_log = <<>>

\* C7's case: the LogView list was converted and Esc was reported once,
\* with LogExitPageMode and SwitchToPreviousWidget
C7_Witness ==
    /\ last.op = "from"
    /\ last.list = LogViewerActions
    /\ actions = LogViewerActions
    /\ ReportCount(KEsc) = 1
    /\ \A p \in ReportsOf(KEsc) :
          Range(p.actions) = {"LogExitPageMode", "SwitchToPreviousWidget"}

\* C8 (as stated): no two actions of the installed registry share a key
C8_NoSharedKey ==
    \A i, j \in 1..Len(actions) :
        i # j => Range(keys(actions[i])) \cap Range(keys(actions[j])) = {}

\* C9 (as stated): the input buffer is empty whenever is_input is false
C9_BufferOnlyWhileInput == ~is_input => input_buffer.buffer = <<>>

\* C10: Enter received in Browsing while row i of the listing is selected
\* and the file of row i has a readable tag block leads, without an abort,
\* to Editing with the record of row i loaded: its path is the path of row
\* i and its first display line is "File name: " followed by the name of
\* row i
C10_EnterLoadsSelectedRow ==
    [][(/\ current_app_widget = "DirListing"
        /\ IsSome(dirlist.state)
        /\ Unwrap(dirlist.state) < Len(dirlist.current_dir_file_paths)
        /\ dirlist.current_dir_file_names[Unwrap(dirlist.state) + 1]
              \in DOMAIN fs
        /\ IsSome(fs[dirlist.current_dir_file_names[Unwrap(dirlist.state) + 1]])
        /\ \E fs_ok, checks \in BOOLEAN : KeyStep(KEnter, fs_ok, checks))
       => (/\ ~panicked'
           /\ current_app_widget' = "MetadataEditor"
           /\ current_selected_song'.file_path =
                 dirlist.current_dir_file_paths[Unwrap(dirlist.state) + 1]
           /\ current_selected_song'.items[1] =
                 FileNameLabel
                    \o dirlist.current_dir_file_names[Unwrap(dirlist.state) + 1])
      ]_vars

\* C10's case: Editing was entered from Browsing with the second row
\* selected, and the record of the second row is the one loaded
C10_Witness ==
    /\ current_app_widget = "MetadataEditor"
    /\ previous_app_widget = "DirListing"
    /\ dirlist.state = Some(1)
    /\ Len(dirlist.current_dir_file_paths) >= 2
    /\ current_selected_song.file_path = dirlist.current_dir_file_paths[2]
    /\ current_selected_song.items[1] =
          FileNameLabel \o dirlist.current_dir_file_names[2]

\* the row enter_metadata_editor_widget loads has no readable tag block
SelectedRowUnreadable ==
    /\ IsSome(dirlist.state)
    /\ Unwrap(dirlist.state) < Len(dirlist.current_dir_file_paths)
    /\ \/ dirlist.current_dir_file_names[Unwrap(dirlist.state) + 1]
             \notin DOMAIN fs
       \/ fs[dirlist.current_dir_file_names[Unwrap(dirlist.state) + 1]] = None

\* C11 (as stated): Enter received in Browsing while the file of the
\* selected row has no readable tag block leaves the focus on Browsing and
\* the loaded record as it was, and does not abort
C11_FailedLoadKeepsBrowsing ==
    [][(/\ current_app_widget = "DirListing"
        /\ SelectedRowUnreadable
        /\ \E fs_ok, checks \in BOOLEAN : KeyStep(KEnter, fs_ok, checks))
       => (/\ ~panicked'
           /\ current_app_widget' = "DirListing"
           /\ current_selected_song' = current_selected_song)
      ]_vars

\* C12 (as stated): no sequence of key events and ticks, whatever the file
\* operations return, aborts the process
C12_NeverAborts == ~panicked

\* what a commit of the text buf makes of the record song when row i of
\* its field list is selected and the rename it may make succeeds iff fs_ok
CommittedTo(song, after, i, buf, fs_ok) ==
    CASE i = 0 ->
           IF fs_ok
           THEN /\ after.file_name = new_file_name_of(buf)
                /\ after.file_path =
                      set_file_name(song.file_path, new_file_name_of(buf))
           ELSE after = song
      [] i = 1 -> /\ after.title = Some(buf)
                  /\ after.items[2] = TitleLabel \o buf
      [] i = 2 -> after.artists = Some(split(buf, ":"))
      [] i = 3 -> /\ after.album = Some(buf)
                  /\ after.items[4] = AlbumLabel \o buf
      [] OTHER -> TRUE

\* C13: Enter in Editing turns input capture on with the focus on the input
\* bar and Editing as the widget to restore; while input is captured the
\* record, its selected field and the widget to restore stay as they are;
\* Enter in the input bar applies the buffered text to the field selected,
\* leaves the buffer empty and puts the focus back on Editing with input
\* capture off
C13_EditSessionCommits ==
    [][/\ (/\ ~is_input
           /\ current_app_widget = "MetadataEditor"
           /\ \E fs_ok, checks \in BOOLEAN : KeyStep(KEnter, fs_ok, checks))
          => (/\ is_input'
              /\ current_app_widget' = "InputBar"
              /\ previous_app_widget' = "MetadataEditor"
              /\ current_selected_song' = current_selected_song)
       /\ (is_input /\ is_input')
          => (/\ current_selected_song' = current_selected_song
              /\ previous_app_widget' = previous_app_widget)
       /\ \A fs_ok \in BOOLEAN :
             (/\ is_input
              /\ \E checks \in BOOLEAN : KeyStep(KEnter, fs_ok, checks))
             => (/\ ~is_input'
                 /\ ~panicked'
                 /\ current_app_widget' = "MetadataEditor"
                 /\ input_buffer'.buffer = <<>>
                 /\ IsSome(current_selected_song.state) =>
                       /\ current_selected_song'.state =
                             current_selected_song.state
                       /\ CommittedTo(current_selected_song,
                                      current_selected_song',
                                      Unwrap(current_selected_song.state),
                                      input_buffer.buffer, fs_ok))
      ]_vars

\* C13's case: a text typed against the album row was committed, the album
\* is that text, the buffer is empty and the focus is back on Editing
C13_Witness ==
    /\ edits = 1
    /\ ~is_input
    /\ current_app_widget = "MetadataEditor"
    /\ previous_app_widget = "MetadataEditor"
    /\ current_selected_song.state = Some(3)
    /\ input_buffer = [buffer |-> <<>>, index |-> 1]
    /\ current_selected_song.album = Some(<<"d">>)

\* C14 (as stated): Esc in the input bar discards the buffer, leaves the
\* record (fields, tag block, display lines) as it is and puts the focus
\* back on Editing with input capture off
C14_CancelDiscardsBuffer ==
    [][(/\ is_input
        /\ \E fs_ok, checks \in BOOLEAN : KeyStep(KEsc, fs_ok, checks))
       => (/\ input_buffer'.buffer = <<>>
           /\ current_selected_song' = current_selected_song
           /\ current_app_widget' = "MetadataEditor"
           /\ ~is_input')
      ]_vars

\* C14, the part the code keeps: Esc in the input bar leaves the record and
\* the files as they are and puts the focus back on Editing
C14_CancelKeepsRecord ==
    [][(/\ is_input
        /\ \E fs_ok, checks \in BOOLEAN : KeyStep(KEsc, fs_ok, checks))
       => (/\ current_selected_song' = current_selected_song
           /\ fs' = fs
           /\ current_app_widget' = "MetadataEditor"
           /\ ~is_input'
           /\ ~panicked')
      ]_vars

\* C15: the key of SwitchToLogWidget, resolved in Browsing or Editing,
\* puts the focus on the log widget and records the widget left; while the
\* focus stays on the log widget the recorded widget does not change; Esc
\* in the log widget (SwitchToPreviousWidget) puts the focus on the
\* recorded widget, without abort
C15_LogViewAndBack ==
    [][/\ (/\ current_app_widget \in {"DirListing", "MetadataEditor"}
           /\ find(actions, KCtrl("l")) = Some("SwitchToLogWidget")
           /\ \E fs_ok, checks \in BOOLEAN :
                 KeyStep(KCtrl("l"), fs_ok, checks))
          => (/\ current_app_widget' = "LogViewer"
              /\ previous_app_widget' = current_app_widget)
       /\ (current_app_widget = "LogViewer"
              /\ current_app_widget' = "LogViewer")
          => previous_app_widget' = previous_app_widget
       /\ (/\ current_app_widget = "LogViewer"
           /\ \E fs_ok, checks \in BOOLEAN : KeyStep(KEsc, fs_ok, checks))
          => (/\ current_app_widget' = previous_app_widget
              /\ current_app_widget' \in {"DirListing", "MetadataEditor"}
              /\ ~panicked')
      ]_vars

\* C15's case: the log widget was entered from Editing and left with Esc,
\* and the focus is on Editing again
C15_Witness ==
    /\ current_app_widget = "MetadataEditor"
    /\ previous_app_widget = "LogViewer"
    /\ ~panicked

\* C16 (amended): the key 'd' resolves to SwitchToDirListWidget only in
\* Browsing and Editing; there it puts the focus on Browsing, records the
\* widget left, installs the Browsing actions and leaves the listing and
\* its selection as they are (only a tick reloads the listing); in the log
\* widget it changes nothing of the focus, and while input is captured it is
\* appended to the buffer
C16_SwitchToDirListWhereEnabled ==
    /\ [](find(actions, KChar("d")) = Some("SwitchToDirListWidget")
            => current_app_widget \in {"DirListing", "MetadataEditor",
                                       "InputBar"})
    /\ [](current_app_widget = "LogViewer"
            => find(actions, KChar("d")) = None)
    /\ [][(/\ ~is_input
           /\ find(actions, KChar("d")) = Some("SwitchToDirListWidget")
           /\ \E fs_ok, checks \in BOOLEAN :
                 KeyStep(KChar("d"), fs_ok, checks))
          => (/\ current_app_widget \in {"DirListing", "MetadataEditor"}
              /\ current_app_widget' = "DirListing"
              /\ previous_app_widget' = current_app_widget
              /\ actions' = DirListingActions
              /\ dirlist' = dirlist)
         ]_vars
    /\ [][(/\ current_app_widget = "LogViewer"
           /\ \E fs_ok, checks \in BOOLEAN :
                 KeyStep(KChar("d"), fs_ok, checks))
          => (/\ current_app_widget' = "LogViewer"
              /\ previous_app_widget' = previous_app_widget
              /\ dirlist' = dirlist)
         ]_vars
    /\ [][(/\ is_input
           /\ \E fs_ok, checks \in BOOLEAN :
                 KeyStep(KChar("d"), fs_ok, checks))
          => (/\ is_input'
              /\ current_app_widget' = "InputBar"
              /\ input_buffer'.buffer = Append(input_buffer.buffer, "d")
              /\ dirlist' = dirlist)
         ]_vars

\* C16's case: 'd' was received while input was captured and is now the
\* buffered text, the focus still on the input bar
C16_Witness ==
    /\ is_input
    /\ current_app_widget = "InputBar"
    /\ input_buffer.buffer = <<"d">>

\* C16 (as stated): in every state the key 'd' puts the focus on Browsing
\* and leaves the listing equal to the content of the directory
C16_SwitchToDirListFromAnywhere ==
    [][(\E fs_ok, checks \in BOOLEAN : KeyStep(KChar("d"), fs_ok, checks))
       => (/\ current_app_widget' = "DirListing"
           /\ dirlist'.current_dir_file_names = SortStrings(DOMAIN fs'))
      ]_vars

\* the App after next()/previous() of a list with this selection and length
SelectedIndexAfter(action, sel, len) ==
    IF action = "SelectDown" THEN next_index(sel, len)
    ELSE previous_index(sel, len)

\* the App record r differs from the current one at most in the browse
\* selection and in having aborted
OnlyBrowseSelectionMoved(r) ==
    [r EXCEPT !.dirlist.state = dirlist.state, !.panicked = panicked] = app

\* the App record r differs from the current one at most in the record's
\* field selection and in having aborted
OnlyFieldSelectionMoved(r) ==
    [r EXCEPT !.current_selected_song.state = current_selected_song.state,
              !.panicked = panicked] = app

\* C17: SelectUp and SelectDown move the selection of the focused widget's
\* list and nothing else. In every reachable state the two arms of the
\* handler leave everything but the browse selection alone while the
\* directory listing is focused, everything but the record's field
\* selection alone while the metadata editor is focused, and everything
\* alone with any other focus; the log viewer and the input bar never
\* resolve 'j' or 'k' to them. Every step of the keys 'j' and 'k' has this
\* effect: unless the step aborts, the focused list's selection is the one
\* next()/previous() computes and the other list's selection is the same.
C17_SelectMovesFocusedListOnly ==
    /\ [](\A action \in {"SelectUp", "SelectDown"}, checks \in BOOLEAN :
            LET r == run_action(app, action, TRUE, checks)
            IN /\ current_app_widget = "DirListing" =>
                     /\ OnlyBrowseSelectionMoved(r)
                     /\ r.current_selected_song.state
                            = current_selected_song.state
                     /\ ~r.panicked =>
                           r.dirlist.state = Some(SelectedIndexAfter(
                               action, dirlist.state,
                               Len(dirlist.current_dir_file_names)))
               /\ current_app_widget = "MetadataEditor" =>
                     /\ OnlyFieldSelectionMoved(r)
                     /\ r.dirlist.state = dirlist.state
                     /\ ~r.panicked =>
                           r.current_selected_song.state =
                               Some(SelectedIndexAfter(
                                   action, current_selected_song.state,
                                   Len(current_selected_song.items)))
               /\ current_app_widget \notin {"DirListing", "MetadataEditor"}
                     => r = app)
    /\ [](\A key \in {KChar("j"), KChar("k")} :
            IsSome(find(actions, key)) =>
                /\ current_app_widget \in {"DirListing", "MetadataEditor",
                                           "InputBar"}
                /\ find(actions, key) =
                      Some(IF key = KChar("j") THEN "SelectDown"
                           ELSE "SelectUp"))
    /\ [][\A key \in {KChar("j"), KChar("k")} :
            (/\ ~is_input /\ IsSome(find(actions, key))
             /\ \E fs_ok, checks \in BOOLEAN : KeyStep(key, fs_ok, checks))
            => LET action == Unwrap(find(actions, key))
               IN /\ current_app_widget' = current_app_widget
                  /\ previous_app_widget' = previous_app_widget
                  /\ actions' = actions /\ fs' = fs
                  /\ input_buffer' = input_buffer /\ is_input' = is_input
                  /\ ui_pc' = "loop"
                  /\ current_app_widget = "DirListing" =>
                        /\ current_selected_song' = current_selected_song
                        /\ [dirlist' EXCEPT !.state = dirlist.state] = dirlist
                        /\ ~panicked' =>
                              dirlist'.state = Some(SelectedIndexAfter(
                                  action, dirlist.state,
                                  Len(dirlist.current_dir_file_names)))
                  /\ current_app_widget = "MetadataEditor" =>
                        /\ dirlist' = dirlist
                        /\ [current_selected_song' EXCEPT
                               !.state = current_selected_song.state]
                              = current_selected_song
                        /\ ~panicked' =>
                              current_selected_song'.state =
                                  Some(SelectedIndexAfter(
                                      action, current_selected_song.state,
                                      Len(current_selected_song.items)))]_vars

\* the field selection was moved to the third field in the metadata editor
\* while the browse selection stayed on the second row
C17_Witness ==
    /\ ~panicked /\ ~is_input
    /\ current_app_widget = "MetadataEditor"
    /\ current_selected_song.state = Some(2)
    /\ dirlist.state = Some(1)
    /\ edits = 0

\* do_action resolves the key 's' to SaveTagsToFile: the input bar is not
\* capturing and the registry in force holds the action
SaveResolvable ==
    ~is_input /\ find(actions, KChar("s")) = Some("SaveTagsToFile")

\* C18: SaveTagsToFile is resolved only while the metadata editor is
\* focused, and a save whose write fails changes nothing. Whenever
\* do_action resolves 's' to SaveTagsToFile the focus is MetadataEditor,
\* and the key resolves to nothing while the directory listing or the log
\* viewer is focused. In every state where the save is resolved, the
\* handler with a failing write returns Continue and the same App: focus,
\* previous widget, the record with its fields and selection, the browse
\* selection and the files are unchanged; every such step leaves them so.
C18_FailedSaveChangesNothing ==
    /\ [](SaveResolvable => current_app_widget = "MetadataEditor")
    /\ [](current_app_widget \in {"DirListing", "LogViewer"}
             => find(actions, KChar("s")) = None)
    /\ [](SaveResolvable =>
             \A checks \in BOOLEAN :
                do_action(app, KChar("s"), FALSE, checks)
                    = [app |-> app, ret |-> "Continue"])
    /\ [][(/\ SaveResolvable
           /\ \E checks \in BOOLEAN : KeyStep(KChar("s"), FALSE, checks))
          => /\ ui_pc' = "loop" /\ ~panicked'
             /\ UNCHANGED <<current_app_widget, previous_app_widget,
                            current_selected_song, dirlist, fs, actions,
                            is_input, input_buffer>>]_vars

\* the metadata editor is focused over a record whose album was edited and
\* whose tag block is not the one in the file: the state a failed save
\* leaves, and one a successful save would have changed
C18_Witness ==
    /\ ~panicked /\ SaveResolvable
    /\ current_app_widget = "MetadataEditor"
    /\ edits = 1
    /\ current_selected_song.album = Some(<<"d">>)
    /\ write_tag_changes(current_selected_song, fs) # fs

\* do_action resolves the key to Quit: the input bar is not capturing and
\* the registry in force maps the key to the action
ResolvesToQuit(key) == ~is_input /\ find(actions, key) = Some("Quit")

\* C19: do_action returns Exit exactly when the input bar is not capturing
\* and the key resolves to Quit; every other key event and every tick
\* returns Continue, so the event loop goes on. As stated: a key step ends
\* the loop iff the key resolves to Quit and otherwise returns to the loop,
\* and every tick returns to the loop.
C19_ExitIffQuit ==
    /\ [][\A key \in Keys :
            (\E fs_ok, checks \in BOOLEAN : KeyStep(key, fs_ok, checks))
            => IF ResolvesToQuit(key)
               THEN ui_pc' = "exited" /\ ~panicked'
               ELSE ui_pc' = "loop" /\ ~panicked']_vars
    /\ [][(\E list_ok \in BOOLEAN : TickStep(list_ok))
            => ui_pc' = "loop" /\ ~panicked']_vars

\* the part of C19 that holds: every step of a key that resolves to Quit
\* ends the loop, and the loop ends by returning only in such a step: no
\* other key event and no tick returns Exit
C19_ExitOnlyOnQuit ==
    /\ [][\A key \in Keys :
            (ResolvesToQuit(key) /\ KeyStep(key, TRUE, TRUE))
            => ui_pc' = "exited"]_vars
    /\ [][(ui_pc = "loop" /\ ui_pc' = "exited")
            => \E key \in Keys :
                  /\ ResolvesToQuit(key)
                  /\ do_action(app, key, TRUE, TRUE).ret = "Exit"
                  /\ KeyStep(key, TRUE, TRUE)]_vars
    /\ [](Alive /\ ~is_input =>
            \A key \in Keys :
               find(actions, key) # Some("Quit")
                  => do_action(app, key, TRUE, TRUE).ret = "Continue")
    /\ [](Alive /\ is_input =>
            \A key \in InputKeys :
               do_action(app, key, TRUE, TRUE).ret = "Continue")

\* the I/O task has handled the Initialize event start_ui dispatched
Initialized == ui_pc # "start" /\ io_rx = <<>>

\* the registry enter_*_widget installs for a widget
RegistryOf(widget) ==
    CASE widget = "DirListing" -> DirListingRegistry.registry
      [] widget = "MetadataEditor" -> MetadataEditorRegistry.registry
      [] widget = "LogViewer" -> LogViewerRegistry.registry

\* C20: after initialization, whenever the directory listing, the metadata
\* editor or the log viewer is focused, the enabled actions are exactly the
\* fixed list of that widget; and every step that changes the focus to one
\* of the three installs that widget's list whole, so that an action of the
\* widget left stays enabled only if the new list holds it too.
C20_ActionsAreTheFocusedWidgets ==
    /\ []((/\ Initialized
           /\ current_app_widget \in {"DirListing", "MetadataEditor",
                                      "LogViewer"})
          => /\ actions = RegistryOf(current_app_widget)
             /\ Range(actions) =
                   Range(CASE current_app_widget = "DirListing" ->
                                 DirListingActions
                           [] current_app_widget = "MetadataEditor" ->
                                 MetadataEditorActions
                           [] current_app_widget = "LogViewer" ->
                                 LogViewerActions))
    /\ [][(/\ current_app_widget' # current_app_widget
           /\ current_app_widget' \in {"DirListing", "MetadataEditor",
                                       "LogViewer"})
          => /\ actions' = RegistryOf(current_app_widget')
             /\ \A action \in Range(actions) :
                   action \in Range(actions')
                      <=> action \in Range(RegistryOf(current_app_widget'))
            ]_vars

\* the log viewer is focused, entered from the metadata editor, and of the
\* editor's eight actions only SwitchToPreviousWidget is still enabled
C20_Witness ==
    /\ ~panicked /\ Initialized
    /\ current_app_widget = "LogViewer"
    /\ previous_app_widget = "MetadataEditor"
    /\ Range(actions) \cap Range(MetadataEditorActions)
          = {"SwitchToPreviousWidget"}

\* start_ui has dispatched Initialize and the I/O task has not taken it yet
InitializePending == ui_pc = "loop" /\ io_rx # <<>>

\* C21: the editor starts with the directory listing focused, and when the
\* I/O task is scheduled the Initialize event start_ui dispatched is handled
\* unless the process has ended before: initialized() has run, with the
\* directory listing focused, its action list installed and is_loading
\* still true at that moment, and from there loaded() runs and is_loading
\* is false from then on for as long as the process lives. Keys handled
\* between initialized() and loaded() may have moved the focus by then.
C21_InitializeIsHandled ==
    /\ current_app_widget = "DirListing"
    /\ actions = InitialRegistry.registry
    /\ ~is_loading
    /\ InitializePending ~>
          (\/ ~Alive
           \/ /\ io_pc = "initialized" /\ io_rx = <<>>
              /\ current_app_widget = "DirListing"
              /\ actions = DirListingRegistry.registry
              /\ is_loading)
    /\ (io_pc = "initialized") ~>
          (~Alive \/ (io_pc = "idle" /\ io_rx = <<>> /\ ~is_loading))
    /\ [][(io_pc = "idle" /\ io_rx = <<>> /\ ui_pc = "loop" /\ ~is_loading)
            => ~is_loading']_vars

\* the handler has run initialized() and loaded() and no key has moved the
\* focus: the directory listing is focused with its actions installed
C21_Witness ==
    /\ Alive /\ Initialized /\ io_pc = "idle"
    /\ ~is_loading
    /\ current_app_widget = "DirListing"
    /\ actions = DirListingRegistry.registry

\* C21 as stated: once Initialize is dispatched, a state is reached where
\* the handler has run initialized() and loaded() and there the directory
\* listing is focused, its action list is installed and is_loading is
\* false (or the process has ended before the I/O task ran)
C21_InitializedAndLoadedInBrowsing ==
    InitializePending ~>
        (\/ ~Alive
         \/ /\ Initialized /\ io_pc = "idle"
            /\ current_app_widget = "DirListing"
            /\ actions = DirListingRegistry.registry
            /\ ~is_loading)

\* the App a handler leaves when it runs alone on the App a: the handlers
\* of Spec, applied whole
handled(a, ev) ==
    CASE ev.type = "Dispatch" -> [a EXCEPT !.is_loading = TRUE]
      [] ev.type = "Tick" ->
           IF ev.ok THEN [a EXCEPT !.dirlist = poll(a.dirlist, ev.names)]
           ELSE panic(a)
      [] ev.type = "Input" -> do_action(a, ev.key, TRUE, TRUE).app
      [] ev.type = "Initialize" -> initialized(a)
      [] ev.type = "Loaded" -> loaded(a)

\* the task t has made every assignment of the event it took
Completed(t) == t.in /\ t.ev # None /\ t.todo = <<>>

\* C22: key events, ticks and the I/O handler's initialized() and loaded()
\* are processed one at a time, each to completion under the App mutex.
\* The event loop and the I/O task are never both between lock() and the
\* drop of the guard, so no assignment of one is made while the other is
\* in a handler; and when a handler has made its last assignment the App
\* is the one the whole handler yields from the App it locked: nothing of
\* another task's update was applied in between.
C22_OneHandlerAtATime ==
    /\ ~(last.ui.in /\ last.io.in)
    /\ last.ui.in => last.owner = "ui"
    /\ last.io.in => last.owner = "io"
    /\ Completed(last.ui) =>
          app = [handled(Unwrap(last.ui.pre), Unwrap(last.ui.ev))
                    EXCEPT !.fs = fs]
    /\ Completed(last.io) =>
          app = [handled(Unwrap(last.io.pre), Unwrap(last.io.ev))
                    EXCEPT !.fs = fs]

\* the event loop has finished entering the log viewer, and still holds
\* the guard, while the I/O task waits to lock the App for loaded()
C22_Witness ==
    /\ Alive /\ Completed(last.ui)
    /\ Unwrap(last.ui.ev) = InputEvent(KCtrl("l"))
    /\ current_app_widget = "LogViewer"
    /\ io_pc = "initialized" /\ ~last.io.in
    /\ is_loading

\* the listing get_files_in_dir yields for the audio directory now
ListingNow == get_files_in_dir(dirlist.current_dir_path, DOMAIN fs)

\* the listing the App holds is not the directory's
ListingChanged ==
    \/ dirlist.current_dir_file_names # ListingNow.names
    \/ dirlist.current_dir_file_paths # ListingNow.paths

\* C23: a tick only refreshes the browse listing. In every state of the
\* event loop, update_on_tick changes no field of the App but the
\* directory list: with the directory listed, the list holds the
\* directory's sorted names and paths, and the browse selection is absent
\* if the listing changed and the same if it did not; with the listing
\* failing nothing is changed (the process aborts). Every tick step leaves
\* focus, previous widget, input flag, input buffer, actions, record and
\* files as they were and has that effect on the list.
C23_TickOnlyRefreshesListing ==
    /\ []((Alive /\ ui_pc = "loop") =>
            LET r == update_on_tick(app, TRUE)
            IN /\ [r EXCEPT !.dirlist = dirlist] = app
               /\ r.dirlist.current_dir_path = dirlist.current_dir_path
               /\ r.dirlist.current_dir_file_names = ListingNow.names
               /\ r.dirlist.current_dir_file_paths = ListingNow.paths
               /\ r.dirlist.state = IF ListingChanged THEN None
                                    ELSE dirlist.state
               /\ [update_on_tick(app, FALSE) EXCEPT !.panicked = panicked]
                     = app)
    /\ [][(\E list_ok \in BOOLEAN : TickStep(list_ok))
          => /\ UNCHANGED <<current_app_widget, previous_app_widget,
                            is_input, input_buffer, actions, warn_log,
                            current_selected_song, fs, is_loading, ui_pc,
                            io_rx, io_pc>>
             /\ dirlist'.current_dir_path = dirlist.current_dir_path
             /\ IF panicked' THEN dirlist' = dirlist
                ELSE /\ dirlist'.current_dir_file_names = ListingNow.names
                     /\ dirlist'.current_dir_file_paths = ListingNow.paths
                     /\ dirlist'.state = IF ListingChanged THEN None
                                         ELSE dirlist.state]_vars

\* a tick in the metadata editor has taken up the file the editor renamed:
\* the list holds the new name, the selection is absent, and focus and
\* record are the editor's
C23_Witness ==
    /\ Alive /\ ~is_input /\ edits = 1
    /\ current_app_widget = "MetadataEditor"
    /\ previous_app_widget = "MetadataEditor"
    /\ current_selected_song.file_name \notin FileNames
    /\ Contains(dirlist.current_dir_file_names,
                current_selected_song.file_name)
    /\ dirlist.state = None

\* C24: the display lines of a loaded record are always the lines computed
\* from its current file name, title, artists and album: after
\* read_music_file, after from_database and after every edit of the file
\* name, the title, the artists or the album, a failed rename and a rename
\* followed by a failed tag re-read included.
C24_ItemsFollowTheFields ==
    is_loaded(current_selected_song) =>
        current_selected_song.items
            = populate_list_items(current_selected_song).items

\* the file was renamed, the tag block of the new path could not be read,
\* and the first display line shows the new name
C24_Witness ==
    /\ last.op = "edit" /\ last.pre.state = Some(0)
    /\ last.ok /\ ~last.reread
    /\ current_selected_song.file_name # last.pre.file_name
    /\ current_selected_song.items[1]
          = FileNameLabel \o current_selected_song.file_name
    /\ current_selected_song.title = last.pre.title

\* the strings of seq with sep between consecutive ones only
RECURSIVE JoinWith(_, _)
JoinWith(seq, sep) ==
    IF seq = <<>> THEN <<>>
    ELSE IF Len(seq) = 1 THEN seq[1]
    ELSE seq[1] \o sep \o JoinWith(Tail(seq), sep)

\* the value shown for an optional string
ShownOr(o) == IF IsSome(o) THEN Unwrap(o) ELSE NoneStr

\* C25: the display lines of a loaded record are exactly four, in the
\* order file name, title, artists, album: "File name: " and the file
\* name, "Title: " and the title, "Artists: " and the artists joined by
\* ":" between consecutive artists only, "Album: " and the album, with
\* "None" for an absent value.
C25_FourLinesArtistsJoined ==
    is_loaded(current_selected_song) =>
        LET song == current_selected_song
        IN song.items =
              << FileNameLabel \o song.file_name,
                 TitleLabel \o ShownOr(song.title),
                 ArtistsLabel \o (IF IsSome(song.artists)
                                  THEN JoinWith(Unwrap(song.artists), <<":">>)
                                  ELSE NoneStr),
                 AlbumLabel \o ShownOr(song.album) >>

\* the part of C25 that holds: four lines in that order with those labels
\* and "None" for an absent title or album, the artists line being the
\* label followed by every artist, and nothing but "None" when the
\* artists are absent
C25_FourLabelledLines ==
    is_loaded(current_selected_song) =>
        LET song == current_selected_song
        IN /\ Len(song.items) = 4
           /\ song.items[1] = FileNameLabel \o song.file_name
           /\ song.items[2] = TitleLabel \o ShownOr(song.title)
           /\ song.items[4] = AlbumLabel \o ShownOr(song.album)
           /\ SubSeq(song.items[3], 1, Len(ArtistsLabel)) = ArtistsLabel
           /\ ~IsSome(song.artists) =>
                 song.items[3] = ArtistsLabel \o NoneStr
           /\ (/\ IsSome(song.artists)
               /\ \A i \in 1..Len(Unwrap(song.artists)) :
                     Unwrap(song.artists)[i] # NoneStr) =>
                 song.items[3] =
                     ArtistsLabel \o JoinWith(Unwrap(song.artists), <<":">>)
                         \o (IF Unwrap(song.artists) = <<>> THEN <<>>
                             ELSE <<":">>)

\* the last operation was an edit of the artists with this record type
ArtistsEdited(data) ==
    /\ last.op = "edit" /\ last.pre.state = Some(2)
    /\ is_data(last.pre) = data

\* C26: an edit of the artists sets them to the tokens of the new value
\* between ":" with every empty token dropped, so that no artist is the
\* empty string, in the editor's record as in the database-backed one.
C26_ArtistsWithoutEmptyTokens ==
    (last.op = "edit" /\ last.pre.state = Some(2)) =>
        /\ current_selected_song.artists = Some(non_empty_tokens(last.arg))
        /\ \A i \in 1..Len(Unwrap(current_selected_song.artists)) :
              Unwrap(current_selected_song.artists)[i] # <<>>

\* the part of C26 that holds: the database-backed record drops the empty
\* tokens, and the editor's record holds every token of the new value,
\* the empty ones included
C26_ArtistsAreTheTokens ==
    /\ ArtistsEdited(TRUE) =>
          /\ current_selected_song.artists
                = Some(non_empty_tokens(last.arg))
          /\ \A i \in 1..Len(Unwrap(current_selected_song.artists)) :
                Unwrap(current_selected_song.artists)[i] # <<>>
    /\ ArtistsEdited(FALSE) =>
          current_selected_song.artists = Some(split(last.arg, ":"))

\* an edit of the file name has been made and the rename failed
RenameFailed ==
    last.op = "edit" /\ last.pre.state = Some(0) /\ ~last.ok

\* C27: when the file name is edited and the rename fails, the record is
\* unchanged: path, file name, title, artists, album and the tag block
\* (and with them the display lines and the selection) are what they were
\* before the call.
C27_FailedRenameKeepsRecord ==
    RenameFailed => current_selected_song = last.pre

\* a rename to another name has failed on a record of the editor whose
\* title had been edited before
C27_Witness ==
    /\ RenameFailed
    /\ ~is_data(current_selected_song)
    /\ new_file_name_of(last.arg) # current_selected_song.file_name
    /\ current_selected_song.title = Some(<<"b">>)
    /\ current_selected_song.file_name \in DOMAIN fs

\* the database-backed record has had its artists edited
C26_DataArtistsEdited ==
    ArtistsEdited(TRUE) /\ last.arg = <<"a", ":", ":", "b", ":">>

\* an edit of the file name has been made and the rename succeeded
RenameSucceeded ==
    last.op = "edit" /\ last.pre.state = Some(0) /\ last.ok

\* the record carries the new file name in file_name and in file_path
NamesUpdated ==
    /\ current_selected_song.file_name = new_file_name_of(last.arg)
    /\ current_selected_song.file_path =
           set_file_name(last.pre.file_path, new_file_name_of(last.arg))

\* title, artists, album and the tag block are those of before the call
TagContentKept ==
    /\ current_selected_song.title = last.pre.title
    /\ current_selected_song.artists = last.pre.artists
    /\ current_selected_song.album = last.pre.album
    /\ current_selected_song.tag = last.pre.tag

\* C28: when the file name is edited and the rename succeeds, file_name and
\* file_path carry the new name; if the re-read of the tag block then fails,
\* the call reports TagReadError to its caller, the names stay updated and
\* title, artists and album keep the previous tag content.
C28_FailedRereadIsReported ==
    RenameSucceeded =>
        /\ NamesUpdated
        /\ ~last.reread => (last.ret = "TagReadError" /\ TagContentKept)

\* C28, the part that holds: after a successful rename the names are
\* updated; if the re-read fails the previous tag content is kept, and the
\* call returns the unit value as it does in every other case.
C28_FailedRereadKeepsContent ==
    /\ RenameSucceeded =>
          /\ NamesUpdated
          /\ ~last.reread => TagContentKept
    /\ last.op = "edit" => last.ret = "()"

\* a rename to another name has succeeded and the re-read has failed, on a
\* record whose title had been edited
C28_Witness ==
    /\ RenameSucceeded /\ ~last.reread
    /\ current_selected_song.file_name # last.pre.file_name
    /\ current_selected_song.title = Some(<<"b">>)

\* the same on the record type of the editor
C28_EditorWitness ==
    C28_Witness /\ ~is_data(current_selected_song)

\* the record's artist list is not empty and no name in it contains ':'
ArtistsEncodable(song) ==
    /\ IsSome(song.artists)
    /\ Unwrap(song.artists) # <<>>
    /\ \A i \in 1..Len(Unwrap(song.artists)) :
          ~str_contains(Unwrap(song.artists)[i], <<":">>)

\* the record was inserted into the empty table and the table was queried
RoundTripDone ==
    last.op = "query_all_song_data" /\ Len(last.rows) = 1

\* C29: for a record whose artist list is not empty and whose artist names
\* contain no ':', inserting it (insert_song) and building it again from
\* the stored row (from_database, in query_all_song_data) gives a record
\* for which equate holds against the original.
C29_RoundTripEquates ==
    (RoundTripDone /\ ArtistsEncodable(current_selected_song)) =>
        /\ ~panicked
        /\ Len(last.songs) = 1
        /\ equate(current_selected_song, last.songs[1])

\* the record has a title, no empty artist name, and the name "None" at
\* most as the last of its artists
RoundTrips(song) ==
    /\ ArtistsEncodable(song)
    /\ IsSome(song.title)
    /\ \A i \in 1..Len(Unwrap(song.artists)) :
          /\ Unwrap(song.artists)[i] # <<>>
          /\ Unwrap(song.artists)[i] = NoneStr
                 => i = Len(Unwrap(song.artists))

\* C29, the part that holds: the round trip gives an equal record exactly
\* for the records with a title, without an empty artist name and with
\* "None" at most as the last artist; without a title the query panics.
C29_RoundTripOfTitledRecords ==
    (RoundTripDone /\ ArtistsEncodable(current_selected_song)) =>
        /\ RoundTrips(current_selected_song) <=>
              (/\ ~panicked
               /\ Len(last.songs) = 1
               /\ equate(current_selected_song, last.songs[1]))
        /\ panicked <=> ~IsSome(current_selected_song.title)

\* a record with two plain artists, an album and a genre has made the
\* round trip
C29_Witness ==
    /\ RoundTripDone /\ ~panicked
    /\ current_selected_song.artists = Some(<< <<"x">>, <<"y">> >>)
    /\ current_selected_song.album = Some(<<"l">>)
    /\ current_selected_song.genre = Some(<<"g">>)
    /\ equate(current_selected_song, last.songs[1])

\* the property of the tag block that holds exactly the value v, or no
\* property when v is absent
ExactlyOne(v) == IF IsSome(v) THEN Some(<<Unwrap(v)>>) ELSE None

\* title, artists and album are what init reads from the record's tag
AgreesWithTag(song) ==
    /\ init(song).title = song.title
    /\ init(song).artists = song.artists
    /\ init(song).album = song.album

\* write_tag_changes followed by read_music_file of the written file gives
\* the title, artists and album of the record
ReloadsTheSame(song, data) ==
    LET written == write_tag_changes(song, fs)
        again == IF data THEN Data_read_music_file(written, song.file_path)
                 ELSE read_music_file(written, song.file_path)
    IN /\ IsSome(again)
       /\ Unwrap(again).title = song.title
       /\ Unwrap(again).artists = song.artists
       /\ Unwrap(again).album = song.album

\* the latest operation was an edit of the row index of the record
EditedRow(index) == last.op = "edit" /\ last.pre.state = Some(index)

\* C30: after any sequence of edits of title, artists and album of a
\* loaded record, the tag's TITLE, ARTIST and ALBUM hold exactly the
\* record's title, artists and album, so that write_tag_changes writes the
\* values shown and read_music_file of the written file gives the same
\* title, artists and album.
C30_TagHoldsExactlyTheFields ==
    (is_loaded(current_selected_song) /\ ~is_data(current_selected_song)) =>
        /\ current_selected_song.tag["TITLE"] =
               ExactlyOne(current_selected_song.title)
        /\ current_selected_song.tag["ARTIST"] =
               current_selected_song.artists
        /\ current_selected_song.tag["ALBUM"] =
               ExactlyOne(current_selected_song.album)
        /\ ReloadsTheSame(current_selected_song, FALSE)

\* C30, amended: the record's title and album are the first value of the
\* tag's TITLE and ALBUM and its artists are the values of ARTIST; a field
\* that was just edited has exactly the edited value in the tag; what
\* write_tag_changes writes reads back as the same title, artists and
\* album.
C30_TagAgreesWithTheFields ==
    (is_loaded(current_selected_song) /\ ~is_data(current_selected_song)) =>
        /\ AgreesWithTag(current_selected_song)
        /\ ReloadsTheSame(current_selected_song, FALSE)
        /\ EditedRow(1) =>
              /\ current_selected_song.title = Some(last.arg)
              /\ current_selected_song.tag["TITLE"] = Some(<<last.arg>>)
        /\ EditedRow(2) =>
              current_selected_song.tag["ARTIST"] =
                  current_selected_song.artists
        /\ EditedRow(3) =>
              /\ current_selected_song.album = Some(last.arg)
              /\ current_selected_song.tag["ALBUM"] = Some(<<last.arg>>)

\* the title of a record of the editor was edited and the tag block was
\* written: the file holds the edited title
C30_Witness ==
    /\ last.op = "write_tag_changes" /\ last.ok
    /\ ~is_data(current_selected_song)
    /\ current_selected_song.title = Some(<<"b">>)
    /\ current_selected_song.file_name \in DOMAIN fs
    /\ read_music_file(fs, current_selected_song.file_path) # None
    /\ Unwrap(read_music_file(fs, current_selected_song.file_path)).title
           = Some(<<"b">>)

\* the same agreement asked of the database-backed record type; it does
\* not hold there: an artist list without names (from "::") is a comment
\* without values, which write_to_path does not store
C30_DataTagAgreesWithTheFields ==
    (is_loaded(current_selected_song) /\ is_data(current_selected_song)) =>
        /\ AgreesWithTag(current_selected_song)
        /\ ReloadsTheSame(current_selected_song, TRUE)

\* the fields Song::equate is said to compare
ComparedFields ==
    {"title", "artists", "album", "genre", "youtube_id", "thumbnail_url",
     "file_name", "file_path"}

\* C31: Song::equate is reflexive and symmetric, and is false whenever the
\* two records differ in one of title, artists, album, genre, youtube_id,
\* thumbnail_url, file_name or file_path; id, tag block, selection and
\* display lines do not count.
C31_EquateComparesTheEightFields ==
    /\ equate(current_selected_song, current_selected_song)
    /\ last.op = "equate" =>
          /\ equate(last.right, last.right)
          /\ last.ret = last.swapped
          /\ last.ret <=>
                 \A f \in ComparedFields :
                     current_selected_song[f] = last.right[f]

\* two records that differ in id only have been found equal
C31_Witness ==
    /\ last.op = "equate" /\ last.ret
    /\ current_selected_song.id # last.right.id
    /\ current_selected_song.title = Some(<<"t">>)

\* the columns update_song is to leave alone in every row
KeptColumns == {"id", "date_added"}

\* C32: update_song never changes the id or the date_added of a row, and
\* changes the other columns only of the row whose id is the record's id;
\* every other row is unchanged, and no row is changed when the record
\* has no id.
C32_UpdateTouchesOnlyItsRow ==
    last.op = "update_song" =>
        /\ Len(last.rows) = Len(last.pre)
        /\ \A i \in 1..Len(last.rows) :
              /\ \A c \in KeptColumns : last.rows[i][c] = last.pre[i][c]
              /\ last.rows[i] # last.pre[i] =>
                    /\ IsSome(last.song.id)
                    /\ last.pre[i].id = last.song.id
              /\ (IsSome(last.song.id) /\ last.pre[i].id = last.song.id) =>
                    /\ last.rows[i].song_title = last.song.title
                    /\ last.rows[i].song_filename = last.song.file_name
                    /\ last.rows[i].song_album = last.song.album
        /\ ~IsSome(last.song.id) => last.rows = last.pre

\* the second of two rows has been updated and the first has not
C32_Witness ==
    /\ last.op = "update_song"
    /\ Len(last.rows) = 2
    /\ last.song.id = Some(2)
    /\ last.rows[1] = last.pre[1]
    /\ last.rows[2] # last.pre[2]
    /\ last.rows[2].date_added = last.pre[2].date_added

\* the terminal is smaller than the minimum
TooSmall(rect) == rect.width < 30 \/ rect.height < 15

\* C33: the editor warns about a too-small terminal exactly when the
\* terminal is smaller than the minimum (width < 30 or height < 15):
\* check_size is false for such a size, and start_ui logs "Terminal too
\* smol" for such a size and not for a large enough one.
C33_WarnsExactlyWhenTooSmall ==
    /\ check_size(last.rect) <=> ~TooSmall(last.rect)
    /\ last.op = "start_ui" =>
          (last.warned = <<"Terminal too smol">> <=> TooSmall(last.rect))

\* C33, the part that holds: check_size is false exactly for the sizes
\* below the minimum; start_ui logs the warning exactly when check_size is
\* true, that is for the terminals that are large enough.
C33_WarnsExactlyWhenLargeEnough ==
    /\ check_size(last.rect) <=> ~TooSmall(last.rect)
    /\ last.op = "start_ui" =>
          (last.warned = <<"Terminal too smol">> <=> ~TooSmall(last.rect))

\* start_ui has run on the 15 x 19 terminal of the test and has not warned
C33_Witness ==
    /\ last.op = "start_ui"
    /\ last.rect.width = 15 /\ last.rect.height = 19
    /\ last.warned = <<>>

\* the directory listing is focused, Enter is enabled, and the selected
\* entry is the file of the record in memory, which is loaded
OnLoadedEntry ==
    /\ ~is_input
    /\ current_app_widget = "DirListing"
    /\ find(actions, KEnter) = Some("Enter")
    /\ IsSome(dirlist.state)
    /\ current_selected_song.initialized
    /\ path_to_load(dirlist) = Some(current_selected_song.file_path)

\* C34: Enter in Browsing on an entry whose record is already the loaded,
\* initialized record of that path does not read the file again: the
\* record in memory, with its edits that were not saved, is kept.
C34_EnterKeepsLoadedRecord ==
    [][(/\ OnLoadedEntry
        /\ \E fs_ok, checks \in BOOLEAN : KeyStep(KEnter, fs_ok, checks))
       => current_selected_song' = current_selected_song]_vars

\* C34, what the code does: Enter in Browsing always reads the file of the
\* selected entry again; the record becomes what the file holds, or the
\* process aborts when the file cannot be read.
C34_EnterReadsTheFileAgain ==
    [][(/\ OnLoadedEntry
        /\ \E fs_ok, checks \in BOOLEAN : KeyStep(KEnter, fs_ok, checks))
       => /\ current_app_widget' = "MetadataEditor"
          /\ IF IsSome(read_music_file(fs, current_selected_song.file_path))
             THEN /\ ~panicked'
                  /\ current_selected_song' =
                        Unwrap(read_music_file(
                            fs, current_selected_song.file_path))
             ELSE panicked']_vars

\* Browsing is focused on the entry of the record in memory, whose title
\* was edited and not saved
C34_Witness ==
    /\ Alive /\ OnLoadedEntry
    /\ edits = 1
    /\ current_selected_song.title = Some(<<"d">>)
    /\ read_music_file(fs, current_selected_song.file_path) # None
    /\ Unwrap(read_music_file(fs, current_selected_song.file_path)).title
           # current_selected_song.title

\* C35: in every reachable state input capture is on (is_input) if and
\* only if the focused widget is the input bar; a commit or a cancel never
\* leaves the focus on the input bar with capture off, and no step leaves
\* capture on with another widget focused.
C35_CaptureIffInputBar ==
    /\ [](is_input <=> current_app_widget = "InputBar")
    /\ [][(is_input /\ ~is_input')
             => current_app_widget' = "MetadataEditor"]_vars
    /\ [][(~is_input /\ is_input')
             => (/\ current_app_widget = "MetadataEditor"
                 /\ previous_app_widget' = "MetadataEditor")]_vars

\* the input bar is capturing a typed character over a loaded record
C35_Witness ==
    /\ Alive
    /\ is_input /\ current_app_widget = "InputBar"
    /\ input_buffer.buffer = <<"d">>
    /\ current_selected_song.initialized

\* the latest key was Enter in the input bar: a value was committed
Committed == last.op = "commit"

\* C36: the value committed on Enter in the input bar is exactly the
\* characters typed, net of Backspace, since the input bar was entered;
\* text typed in an earlier session that was cancelled with Esc is no part
\* of a later committed value.
C36_CommitsWhatWasTyped ==
    Committed => last.committed = Some(last.typed)

\* C36, the part that holds: when no input session was cancelled since the
\* latest commit, the committed value is what was typed in the session,
\* and the title row selected gets that value.
C36_CommitsWhatWasTypedUnlessCancelled ==
    /\ (Committed /\ ~last.stale) => last.committed = Some(last.typed)
    /\ (Committed /\ last.row = Some(1)) =>
           current_selected_song.title = last.committed

\* a character was typed and committed to the title in a second session,
\* after a first one that was committed too
C36_Witness ==
    /\ Committed /\ ~last.stale /\ edits = 2
    /\ last.typed = <<"d">>
    /\ last.row = Some(1)
    /\ current_selected_song.title = Some(<<"d">>)

\* a value typed in a cancelled session was committed by a later session
\* in which nothing was typed
C36_StaleTextCommitted ==
    /\ Committed /\ last.stale
    /\ last.typed = <<>>
    /\ last.committed = Some(<<"d">>)
    /\ current_selected_song.title = Some(<<"d">>)

\* C37: an edit of the file name changes only file_name and file_path:
\* after a successful rename the record's title, artists and album, with
\* the edits made in memory and not yet written, are the same as before.
C37_RenameKeepsFields ==
    RenameSucceeded =>
        /\ current_selected_song.title = last.pre.title
        /\ current_selected_song.artists = last.pre.artists
        /\ current_selected_song.album = last.pre.album

\* C37, what the code does: after a successful rename whose re-read
\* succeeds, title, artists and album are what init reads from the tag
\* block read from the renamed file; the fields and the tag block of before
\* are kept when the re-read fails.
C37_RenameRereadsFields ==
    RenameSucceeded =>
        /\ NamesUpdated
        /\ IF last.reread
           THEN AgreesWithTag(current_selected_song)
           ELSE TagContentKept

\* a record whose title was edited in memory has been renamed, and its
\* title is the one of the file again
C37_EditLostByRename ==
    /\ RenameSucceeded /\ last.reread
    /\ ~is_data(current_selected_song)
    /\ last.pre.title = Some(<<"b">>)
    /\ current_selected_song.title = Some(<<"t">>)

\* some key makes Actions::find return the action
Triggerable(action) ==
    \E key \in BoundKeys : find(actions, key) = Some(action)

\* C38: in each action set the editor installs, every enabled action can
\* be triggered: for each enabled action there is a key for which
\* Actions::find returns that action.
C38_EveryEnabledActionTriggerable ==
    \A action \in Range(actions) : Triggerable(action)

\* C38, the part that holds: every enabled action but LogExitPageMode can
\* be triggered; LogExitPageMode is enabled only in the log viewer, where
\* its only key, Esc, resolves to SwitchToPreviousWidget.
C38_AllButLogExitPageModeTriggerable ==
    /\ \A action \in Range(actions) \ {"LogExitPageMode"} :
          Triggerable(action)
    /\ Contains(actions, "LogExitPageMode") =>
          /\ current_app_widget = "LogViewer"
          /\ ~Triggerable("LogExitPageMode")
          /\ find(actions, KEsc) = Some("SwitchToPreviousWidget")

\* the log viewer is focused with its action set installed, entered from
\* the metadata editor
C38_LogViewerInstalled ==
    /\ Alive
    /\ current_app_widget = "LogViewer"
    /\ previous_app_widget = "MetadataEditor"
    /\ actions = LogViewerRegistry.registry

\* the table was queried with query_all_song_data
Queried == last.op = "query_all_song_data"

\* C39: from_database returns a record, without aborting, for every
\* combination of present and absent optional columns, so that
\* query_all_song_data returns every row of the table, the rows inserted
\* without a title included.
C39_QueryReturnsEveryRow ==
    Queried => (~panicked /\ Len(last.songs) = Len(last.rows))

\* C39, the part that holds: query_all_song_data returns every row when
\* every row has a title and aborts when one has none; from_database
\* aborts exactly when the title or the artist column is absent, whatever
\* the other columns hold.
C39_QueryAbortsOnAbsentTitle ==
    Queried =>
        /\ panicked <=>
              \E i \in 1..Len(last.rows) : ~IsSome(last.rows[i].song_title)
        /\ ~panicked => Len(last.songs) = Len(last.rows)
        /\ \A i \in 1..Len(last.rows) :
              \A t \in {None, Some(<<"t">>)}, ar \in {None, Some(<<"x", ":">>)} :
                  song_of_row([last.rows[i] EXCEPT !.song_title = t,
                                                   !.song_artist = ar]).panics
                      <=> (t = None \/ ar = None)

\* a record without a title and without artists was inserted and the
\* query has aborted
C39_QueryAborted ==
    /\ Queried /\ panicked
    /\ Len(last.rows) = 1
    /\ current_selected_song.title = None
    /\ current_selected_song.artists = None
    /\ last.rows[1].song_title = None
    /\ last.rows[1].song_artist = Some(NoneStr)

\* the directory listing is focused, Enter is enabled and no entry is
\* selected
NothingSelected ==
    /\ ~is_input
    /\ current_app_widget = "DirListing"
    /\ find(actions, KEnter) = Some("Enter")
    /\ dirlist.state = None

\* C40: Enter in Browsing while no entry is selected loads no record and
\* leaves the focus in Browsing; an entry the user did not select is never
\* loaded.
C40_EnterWithoutSelectionLoadsNothing ==
    [][(/\ NothingSelected
        /\ \E fs_ok, checks \in BOOLEAN : KeyStep(KEnter, fs_ok, checks))
       => (/\ ~panicked'
           /\ current_app_widget' = "DirListing"
           /\ current_selected_song' = current_selected_song)]_vars

\* C40, what the code does: Enter without a selection moves the focus to
\* the metadata editor and loads the first entry of the listing; the
\* process aborts when the listing is empty or that file cannot be read.
C40_EnterWithoutSelectionLoadsFirst ==
    [][(/\ NothingSelected
        /\ \E fs_ok, checks \in BOOLEAN : KeyStep(KEnter, fs_ok, checks))
       => /\ current_app_widget' = "MetadataEditor"
          /\ IF /\ dirlist.current_dir_file_paths # <<>>
                /\ IsSome(read_music_file(fs, dirlist.current_dir_file_paths[1]))
             THEN /\ ~panicked'
                  /\ current_selected_song' =
                        Unwrap(read_music_file(
                            fs, dirlist.current_dir_file_paths[1]))
             ELSE panicked']_vars

\* the metadata editor is focused over the first of two entries while no
\* entry of the listing is selected
C40_FirstEntryLoadedUnselected ==
    /\ Alive
    /\ current_app_widget = "MetadataEditor"
    /\ previous_app_widget = "DirListing"
    /\ dirlist.state = None
    /\ Len(dirlist.current_dir_file_paths) = 2
    /\ current_selected_song.initialized
    /\ current_selected_song.file_path = dirlist.current_dir_file_paths[1]

====
